---- MODULE Spec2Model ----
(***************************************************************************)
(* MarkdownGPT (src/script.js): the AI processing pipeline of the editor,  *)
(* processWithAI with its validation, isProcessing lock, retry loop,       *)
(* per-attempt timeout, local fallback and content enrichment, run on the  *)
(* browser's event loop: every action below is one run-to-completion step  *)
(* of JavaScript, from an event or a settled promise to the next await.    *)
(*                                                                         *)
(* Text is modelled as TLA+ strings, one character per UTF-16 code unit    *)
(* (JavaScript's .length).  Code units a TLA+ string cannot hold are       *)
(* written with stand-in characters that occur nowhere in the texts:       *)
(*   "@"  a pictograph of U+2600..U+27BF (one code unit)                   *)
(*   "{"  "}"  the high and low surrogate of a pictograph of               *)
(*        U+1F300..U+1F9FF (two code units)                                *)
(*   "~"  the em dash U+2014,   "^"  the en dash U+2013                    *)
(*   "&"  any other code unit outside ASCII (U+23F3, U+FE0F, ...)          *)
(*   "$"  the backtick U+0060, which a TLA+ string cannot hold             *)
(* A missing JSON field (undefined) is written "" or FALSE: the code only  *)
(* tests such fields for truthiness, which "" and undefined share.         *)
(***************************************************************************)
EXTENDS Integers, Sequences, FiniteSets, TLC

\* ------------------------------------------------------------ configuration

MAX_TEXT_LENGTH == 1000

RETRY_ATTEMPTS == 3

TIMEOUT_MS == 30000

ENABLE_JWT == FALSE

\* CONFIG.ENABLE_LOCAL_FALLBACK is never set: undefined !== false
ENABLE_LOCAL_FALLBACK == TRUE

\* ------------------------------------------------------------------ bounds

\* processWithAI / applyFormat calls made in one editor session
MaxCalls == 2

\* how many times the user types, toggles the icons or loads a template
MaxEvents == 1

\* how many times logError is called on its own
MaxLogs == 12

\* ------------------------------------------------------- JavaScript strings

\* String.prototype.charAt: "" outside the string
CharAt(s, i) == IF i \in 1..Len(s) THEN SubSeq(s, i, i) ELSE ""

\* String.prototype.includes
Includes(s, sub) ==
    \E i \in 1..(Len(s) - Len(sub) + 1) : SubSeq(s, i, i + Len(sub) - 1) = sub

\* String.prototype.startsWith
StartsWith(s, p) == Len(s) >= Len(p) /\ SubSeq(s, 1, Len(p)) = p

\* the characters String.prototype.trim removes and \s matches
Whitespace == {" ", "\t", "\n", "\r", "\f"}

\* the least i in lo..hi with P(s, i); hi + 1 when there is none
RECURSIVE FirstIndex(_, _, _, _)
FirstIndex(P(_, _), s, lo, hi) ==
    IF lo > hi THEN lo
    ELSE IF lo = hi THEN (IF P(s, lo) THEN lo ELSE lo + 1)
    ELSE LET mid  == (lo + hi) \div 2
             left == FirstIndex(P, s, lo, mid)
         IN  IF left <= mid THEN left ELSE FirstIndex(P, s, mid + 1, hi)

\* the greatest i in lo..hi with P(s, i); lo - 1 when there is none
RECURSIVE LastIndex(_, _, _, _)
LastIndex(P(_, _), s, lo, hi) ==
    IF lo > hi THEN hi
    ELSE IF lo = hi THEN (IF P(s, lo) THEN lo ELSE lo - 1)
    ELSE LET mid   == (lo + hi) \div 2
             right == LastIndex(P, s, mid + 1, hi)
         IN  IF right > mid THEN right ELSE LastIndex(P, s, lo, mid)

Digits == {"0", "1", "2", "3", "4", "5", "6", "7", "8", "9"}

NotWhitespaceAt(s, i) == CharAt(s, i) \notin Whitespace

NotDigitAt(s, i) == CharAt(s, i) \notin Digits

NewlineAt(s, i) == CharAt(s, i) = "\n"

\* String.prototype.trim
NoTrim(s) == s

Trim(s) ==
    SubSeq(s, FirstIndex(NotWhitespaceAt, s, 1, Len(s)), LastIndex(NotWhitespaceAt, s, 1, Len(s)))

\* String.prototype.repeat
RECURSIVE Repeat(_, _)
Repeat(s, n) ==
    IF n = 0 THEN ""
    ELSE IF n % 2 = 1 THEN s \o Repeat(s, n - 1)
    ELSE LET h == Repeat(s, n \div 2) IN h \o h

\* s.split('\n') from index p on: the pieces between the newlines
RECURSIVE SplitLinesFrom(_, _)
SplitLinesFrom(s, p) ==
    LET j == FirstIndex(NewlineAt, s, p, Len(s))
    IN  IF j > Len(s) THEN <<SubSeq(s, p, Len(s))>>
        ELSE <<SubSeq(s, p, j - 1)>> \o SplitLinesFrom(s, j + 1)

SplitLines(s) == SplitLinesFrom(s, 1)

\* Array.prototype.join
RECURSIVE Join(_, _)
Join(parts, sep) ==
    IF Len(parts) = 0 THEN ""
    ELSE IF Len(parts) = 1 THEN parts[1]
    ELSE LET h == Len(parts) \div 2
         IN  Join(SubSeq(parts, 1, h), sep) \o sep \o Join(SubSeq(parts, h + 1, Len(parts)), sep)

UpperCase == {"A", "B", "C", "D", "E", "F", "G", "H", "I", "J", "K", "L", "M",
              "N", "O", "P", "Q", "R", "S", "T", "U", "V", "W", "X", "Y", "Z"}

LowerOf(c) ==
    CASE c = "A" -> "a" [] c = "B" -> "b" [] c = "C" -> "c" [] c = "D" -> "d"
      [] c = "E" -> "e" [] c = "F" -> "f" [] c = "G" -> "g" [] c = "H" -> "h"
      [] c = "I" -> "i" [] c = "J" -> "j" [] c = "K" -> "k" [] c = "L" -> "l"
      [] c = "M" -> "m" [] c = "N" -> "n" [] c = "O" -> "o" [] c = "P" -> "p"
      [] c = "Q" -> "q" [] c = "R" -> "r" [] c = "S" -> "s" [] c = "T" -> "t"
      [] c = "U" -> "u" [] c = "V" -> "v" [] c = "W" -> "w" [] c = "X" -> "x"
      [] c = "Y" -> "y" [] c = "Z" -> "z" [] OTHER -> c

\* String.prototype.toLowerCase
RECURSIVE ToLowerCase(_)
ToLowerCase(s) ==
    IF Len(s) = 0 THEN ""
    ELSE IF Len(s) = 1 THEN LowerOf(s)
    ELSE LET h == Len(s) \div 2
         IN  ToLowerCase(SubSeq(s, 1, h)) \o ToLowerCase(SubSeq(s, h + 1, Len(s)))

\* the decimal digits of a number, as template literals print it
NumToString(n) == ToString(n)

\* s with the character at each index i replaced by F(s, i); "" drops it
RECURSIVE MapChars(_, _, _, _)
MapChars(F(_, _), s, lo, hi) ==
    IF lo > hi THEN ""
    ELSE IF lo = hi THEN F(s, lo)
    ELSE LET mid == (lo + hi) \div 2
         IN  MapChars(F, s, lo, mid) \o MapChars(F, s, mid + 1, hi)

\* length of the run of whitespace that starts at index i
WhitespaceRun(s, i) == FirstIndex(NotWhitespaceAt, s, i, Len(s)) - i

\* length of the run of digits that starts at index i
DigitRun(s, i) == FirstIndex(NotDigitAt, s, i, Len(s)) - i

\* ------------------------------------------------------- local formatting

CodeKeywords == {"function", "const", "let", "var", "class", "import", "export"}

\* line.match(/^(function|const|let|var|class|import|export)/)
IsCodeLine(line) == \E kw \in CodeKeywords : StartsWith(line, kw)

RECURSIVE formatAsCodeLines(_, _, _)
formatAsCodeLines(lines, k, inCodeBlock) ==
    IF k > Len(lines) THEN (IF inCodeBlock THEN <<"$$$">> ELSE <<>>)
    ELSE LET line == lines[k] IN
         IF IsCodeLine(line)
         THEN (IF ~inCodeBlock THEN <<"$$$javascript">> ELSE <<>>)
              \o <<line>> \o formatAsCodeLines(lines, k + 1, TRUE)
         ELSE IF inCodeBlock /\ Trim(line) = ""
         THEN <<line>> \o formatAsCodeLines(lines, k + 1, TRUE)
         ELSE IF inCodeBlock
         THEN <<"$$$", "", line>> \o formatAsCodeLines(lines, k + 1, FALSE)
         ELSE <<line>> \o formatAsCodeLines(lines, k + 1, FALSE)

formatAsCode(content) == Join(formatAsCodeLines(SplitLines(content), 1, FALSE), "\n")

StepAt(s, i) == SubSeq(s, i, i + 3) = "step"

\* line.replace(/step\s*\d*:?\s*/i, ''): the first match removed
RemoveStepPrefix(line) ==
    LET i == FirstIndex(StepAt, ToLowerCase(line), 1, Len(line) - 3)
    IN  IF i > Len(line) - 3 THEN line
        ELSE LET a  == i + 4
                 b  == a + WhitespaceRun(line, a)
                 c  == b + DigitRun(line, b)
                 d  == IF CharAt(line, c) = ":" THEN c + 1 ELSE c
                 e  == d + WhitespaceRun(line, d)
             IN  SubSeq(line, 1, i - 1) \o SubSeq(line, e, Len(line))

RECURSIVE formatAsTutorialLines(_, _, _)
formatAsTutorialLines(lines, k, stepCounter) ==
    IF k > Len(lines) THEN <<>>
    ELSE LET line == lines[k] IN
         IF Includes(ToLowerCase(line), "step") /\ ~StartsWith(line, "#")
         THEN <<"## Step " \o NumToString(stepCounter) \o ": " \o RemoveStepPrefix(line)>>
              \o formatAsTutorialLines(lines, k + 1, stepCounter + 1)
         ELSE <<line>> \o formatAsTutorialLines(lines, k + 1, stepCounter)

formatAsTutorial(content) == Join(formatAsTutorialLines(SplitLines(content), 1, 1), "\n")

formatAsArticleLine(line) ==
    IF Len(line) > 0 /\ ~StartsWith(line, "#") /\ ~StartsWith(line, "-") /\ ~StartsWith(line, "*")
    THEN IF Len(line) < 60 /\ ~Includes(line, ".") /\ ~Includes(line, ",")
         THEN "## " \o line
         ELSE line
    ELSE line

RECURSIVE formatAsArticleLines(_, _)
formatAsArticleLines(lines, k) ==
    IF k > Len(lines) THEN <<>>
    ELSE <<formatAsArticleLine(lines[k])>> \o formatAsArticleLines(lines, k + 1)

formatAsArticle(content) == Join(formatAsArticleLines(SplitLines(content), 1), "\n")

\* the text autoFormatLocal writes to the editor, given the editor's text
autoFormatLocalText(content) ==
    IF Includes(content, "function") \/ Includes(content, "const") \/ Includes(content, "class")
    THEN formatAsCode(content)
    ELSE IF Includes(content, "step") \/ Includes(content, "tutorial")
    THEN formatAsTutorial(content)
    ELSE formatAsArticle(content)

\* ------------------------------------------------------ content enrichment

\* index i lies in a pictograph the /u regular expression of enrichContent
\* matches: one code unit "@", or the surrogate pair "{" "}"
IsIconUnit(s, i) ==
    \/ CharAt(s, i) = "@"
    \/ CharAt(s, i) = "{" /\ CharAt(s, i + 1) = "}"
    \/ CharAt(s, i) = "}" /\ CharAt(s, i - 1) = "{"

StripIconAt(s, i) == IF IsIconUnit(s, i) THEN "" ELSE CharAt(s, i)

\* enriched.replace(/[pictographs]/gu, '')
RemoveIcons(s) == MapChars(StripIconAt, s, 1, Len(s))

DashAt(s, i) == IF CharAt(s, i) \in {"~", "^"} THEN "-" ELSE CharAt(s, i)

\* enriched.replace(/em dash|en dash/g, '-')
ReplaceDashes(s) == MapChars(DashAt, s, 1, Len(s))

SqueezeNewlineAt(s, i) ==
    IF i >= 3 /\ SubSeq(s, i - 2, i) = "\n\n\n" THEN "" ELSE CharAt(s, i)

\* enriched.replace(/\n{3,}/g, '\n\n')
SqueezeNewlines(s) == MapChars(SqueezeNewlineAt, s, 1, Len(s))

\* i starts a match of /([.!?])\s*([A-Z])/
IsSentenceBreak(s, i) ==
    /\ CharAt(s, i) \in {".", "!", "?"}
    /\ CharAt(s, i + 1 + WhitespaceRun(s, i + 1)) \in UpperCase

\* enriched.replace(/([.!?])\s*([A-Z])/g, '$1 $2') from index p on
RECURSIVE SpaceSentencesFrom(_, _)
SpaceSentencesFrom(s, p) ==
    LET i == FirstIndex(IsSentenceBreak, s, p, Len(s))
    IN  IF i > Len(s) THEN SubSeq(s, p, Len(s))
        ELSE LET j == i + 1 + WhitespaceRun(s, i + 1)
             IN  SubSeq(s, p, i) \o " " \o CharAt(s, j) \o SpaceSentencesFrom(s, j + 1)

enrichGenericContent(content, settings) ==
    SqueezeNewlines(SpaceSentencesFrom(content, 1))

\* the for loop of enrichTwitterContent from line k on: the tweets pushed
RECURSIVE PackTweets(_, _, _)
PackTweets(lines, k, currentTweet) ==
    IF k > Len(lines) THEN (IF currentTweet # "" THEN <<currentTweet>> ELSE <<>>)
    ELSE LET line == lines[k] IN
         IF Len(currentTweet \o "\n" \o line) <= 280
         THEN PackTweets(lines, k + 1,
                         currentTweet \o (IF currentTweet # "" THEN "\n" ELSE "") \o line)
         ELSE (IF currentTweet # "" THEN <<currentTweet>> ELSE <<>>)
              \o PackTweets(lines, k + 1,
                            IF Len(line) <= 280 THEN line ELSE SubSeq(line, 1, 277) \o "...")

NonBlank(line) == Trim(line) # ""

\* tweets.map(...): each tweet under its "index/count" header when there
\* are several
NumberTweets(tweets) ==
    [k \in 1..Len(tweets) |->
        IF Len(tweets) > 1
        THEN NumToString(k) \o "/" \o NumToString(Len(tweets)) \o "\n\n" \o tweets[k]
        ELSE tweets[k]]

enrichTwitterContent(content, settings) ==
    Join(NumberTweets(PackTweets(SelectSeq(SplitLines(content), NonBlank), 1, "")),
         "\n\n---\n\n")

enrichLinkedInContent(content, settings) ==
    SqueezeNewlines(
        IF ~Includes(content, "What do you think?") /\ ~Includes(content, "Share your thoughts")
        THEN content \o "\n\nWhat are your thoughts on this? Share your experience in the comments below!"
        ELSE content)

\* lines.splice(-1, 0, takeaway) when there are more than 3 lines
SpliceAlways(lines) ==
    SubSeq(lines, 1, Len(lines) - 1)
    \o <<"\n**Key takeaway:** Focus on practical insights that advance your career.">>
    \o <<lines[Len(lines)]>>

SpliceTakeaway(lines) ==
    IF Len(lines) > 3
    THEN SubSeq(lines, 1, Len(lines) - 1)
         \o <<"\n**Key takeaway:** Focus on practical insights that advance your career.">>
         \o <<lines[Len(lines)]>>
    ELSE lines

enrichPeerlistContent(content, settings) ==
    IF ~Includes(content, "Key takeaway") /\ ~Includes(content, "Lesson learned")
    THEN Join(SpliceTakeaway(SplitLines(content)), "\n")
    ELSE content

\* where the match of /$$$\s*\n/ ("$" the backtick) that starts at i ends:
\* the fence, then a run of whitespace up to its last newline; 0 for no match
FenceEnd(s, i) ==
    IF i + 2 <= Len(s) /\ SubSeq(s, i, i + 2) = "$$$"
    THEN LET run  == WhitespaceRun(s, i + 3)
             last == LastIndex(NewlineAt, s, i + 3, i + 2 + run)
         IN  IF last >= i + 3 THEN last ELSE 0
    ELSE 0

IsFence(s, i) == FenceEnd(s, i) # 0

\* enriched.replace(/$$$\s*\n/g, '$$$javascript\n') from index p on
RECURSIVE TagFencesFrom(_, _)
TagFencesFrom(s, p) ==
    LET i == FirstIndex(IsFence, s, p, Len(s))
    IN  IF i > Len(s) THEN SubSeq(s, p, Len(s))
        ELSE SubSeq(s, p, i - 1) \o "$$$javascript\n" \o TagFencesFrom(s, FenceEnd(s, i) + 1)

\* the community sign-off of enrichDailyDevContent
SignOff(fenced) ==
    IF ~Includes(fenced, "Happy coding") /\ ~Includes(fenced, "developer")
    THEN fenced \o "\n\nHappy coding! {}\n\nWhat's your experience with this? Let me know in the comments!"
    ELSE fenced

enrichDailyDevContent(content, settings) ==
    SignOff(IF Includes(content, "function") \/ Includes(content, "const") \/ Includes(content, "code")
            THEN TagFencesFrom(content, 1)
            ELSE content)

\* enrichContent's try block; none of its string operations throws on a string
enrichPlatform(enriched, format, settings) ==
    CASE format = "twitter-post"     -> enrichTwitterContent(enriched, settings)
      [] format = "linkedin-post"    -> enrichLinkedInContent(enriched, settings)
      [] format = "peerlist-article" -> enrichPeerlistContent(enriched, settings)
      [] format = "dailydev-article" -> enrichDailyDevContent(enriched, settings)
      [] OTHER                       -> enrichGenericContent(enriched, settings)

enrichContent(content, format, settings) ==
    enrichPlatform(IF ~settings.enableIcons THEN ReplaceDashes(RemoveIcons(content)) ELSE content,
                   format, settings)

\* A value JSON may carry as processedText: a string, or a number with the
\* text String(value) gives for it.
JsString(s) == [type |-> "string", text |-> s]

JsNumber(text) == [type |-> "number", text |-> text]

\* the value in a condition: '' and 0 are falsy
AlwaysTruthy(value) == TRUE

Truthy(value) == IF value.type = "string" THEN value.text # "" ELSE value.text # "0"

\* enrichContent's try block calls replace, split or includes on content: a
\* number has none of them and the call throws a TypeError
EnrichThrows(content) == content.type # "string"

\* the TypeError of the first String method the try block calls
EnrichError(format, settings) ==
    [name |-> "TypeError",
     message |-> IF ~settings.enableIcons THEN "enriched.replace is not a function"
                 ELSE IF format = "twitter-post" THEN "content.split is not a function"
                 ELSE IF format \in {"linkedin-post", "peerlist-article", "dailydev-article"}
                 THEN "enriched.includes is not a function"
                 ELSE "enriched.replace is not a function"]

\* the catch of enrichContent: return content (script.js 1364-1367)
EnrichCatchEmpty(content) == JsString("")

EnrichCatch(content) == content

\* what enrichContent returns for any content: the try block's result, or
\* what the catch returns
EnrichedText(content, format, settings) ==
    IF EnrichThrows(content) THEN EnrichCatch(content)
    ELSE JsString(enrichContent(content.text, format, settings))

\* ------------------------------------------------------- prompts, templates

\* the prompts table of processWithAI; "" where the table has no entry
prompts(format) ==
    CASE format = "dev-article" -> "Transform this into a well-structured development article with clear sections, proper headings, and code examples where appropriate."
      [] format = "tutorial" -> "Format this as a step-by-step tutorial with numbered sections and clear instructions."
      [] format = "chatgpt-prompt" -> "Reformat this as a clear, structured prompt for ChatGPT with specific requirements and context."
      [] format = "readme" -> "Format this as a professional README document with sections for installation, usage, and examples."
      [] format = "Med-Article" -> "Transform this into a well-structured Medium-style article with engaging headings, proper formatting, and clear sections."
      [] format = "peerlist-article" -> "Transform this into a professional Peerlist article that showcases expertise and builds credibility. Focus on insights, career lessons, and actionable advice. Use engaging headlines and professional tone suitable for networking."
      [] format = "twitter-post" -> "Transform this into an engaging Twitter/X thread. Break into concise, punchy tweets (max 280 chars each). Use hooks, numbered points, and encourage engagement. Include relevant hashtags and maintain conversational tone."
      [] format = "linkedin-post" -> "Transform this into a professional LinkedIn post that drives engagement. Use storytelling elements, professional insights, and calls-to-action. Include relevant hashtags and maintain thought leadership tone."
      [] format = "dailydev-article" -> "Transform this into a Daily.dev community article. Focus on practical development insights, code examples, and developer-focused content. Use clear sections, code blocks, and actionable takeaways for the developer community."
      [] OTHER -> ""

GenericPrompt == "Improve the formatting and structure of this text."

\* the templates table of useTemplate, for the formats of the model
templates(format) ==
    CASE format = "tutorial" -> "# Step-by-Step Tutorial: [Topic]\n\n## Prerequisites\n\n- Requirement 1\n- Requirement 2\n- Requirement 3\n\n## Step 1: Setup\n\nFirst, let's set up our environment...\n\n$$$bash\nnpm install package-name\n$$$\n\n## Step 2: Configuration\n\nNext, we'll configure...\n\n## Step 3: Implementation\n\nNow let's implement the solution...\n\n## Step 4: Testing\n\nFinally, let's test our implementation...\n\n## Conclusion\n\nYou've successfully learned how to..."
      [] format = "twitter-post" -> "{} Thread: [Your Topic]\n\n1/7 Hook: Start with an attention-grabbing statement or question...\n\n2/7 Problem: Identify the key issue or challenge...\n\n3/7 Solution: Present your main insight or approach...\n\n4/7 Example: Give a concrete example or case study...\n\n5/7 Benefits: Highlight the positive outcomes...\n\n6/7 Action: Tell people what they should do next...\n\n7/7 Conclusion: Wrap up with a key takeaway and encourage engagement.\n\nWhat do you think? Drop a reply with your experience! {}\n\n#YourHashtag #Relevant #Tags"
      [] OTHER -> ""

\* ------------------------------------------------------------------- state

VARIABLES
    editor,        \* the #editor textarea: [value]
    editorState,   \* the editorState object
    buttons,       \* the format buttons, by their data-format attribute
    enableIcons,   \* the #enableIcons checkbox
    calls,         \* the processWithAI invocations: their arguments and locals
    requests,      \* the POSTs issued to AI_WORKER_URL/process, in order
    now,           \* Date.now(), in ms since the page loaded
    events,        \* how many times the user typed, toggled or loaded a template,
                   \* or enrichContent was called directly
    enrichCall,    \* the last direct call of enrichContent and what it returned
    insertCall,    \* the last call of insertFormat: the selection it found and left
    autoCall       \* the autoFormat invocation: its locals and its button

vars ==
    <<editor, editorState, buttons, enableIcons, calls, requests, now, events, enrichCall,
      insertCall, autoCall>>

CallIds == 1..MaxCalls

\* formats that have a .format-btn button on the page
ButtonFormats == {"tutorial", "twitter-post"}

\* what the user may type or paste into the editor
Texts ==
    { "", " \n\t ", "Hello step", "# Hi",
      " " \o Repeat("a", MAX_TEXT_LENGTH),
      Repeat("a", MAX_TEXT_LENGTH + 1) }

\* the arguments of a processWithAI call: element is null, a string (the old
\* calling convention, the format as first argument) or a button element
NullElement == [type |-> "null", value |-> ""]

\* processWithAI('tutorial'), the old calling convention
TutorialCall ==
    [element |-> [type |-> "string", value |-> "tutorial"], format |-> "", customPrompt |-> ""]

CallArgs ==
    { TutorialCall,
      [element |-> [type |-> "button", value |-> "twitter-post"], format |-> "twitter-post", customPrompt |-> ""],
      [element |-> NullElement, format |-> "custom", customPrompt |-> "Make it short."] }

\* what fetch may resolve with: the Response and the JSON its body parses to
\* (json FALSE: the body is not JSON and response.json() rejects)
Response(ok, status, statusText, json, success, processedText, error) ==
    [ok |-> ok, status |-> status, statusText |-> statusText, json |-> json,
     success |-> success, processedText |-> JsString(processedText), error |-> error]

\* 2xx, success true, with a processedText
Formatted == Response(TRUE, 200, "OK", TRUE, TRUE, "# Step 1: Hello", "")

Enrichable == Response(TRUE, 200, "OK", TRUE, TRUE, "Hi.There @ ~ {}", "")

\* 2xx, but no processedText, success false, or a body that is not JSON
NoText == Response(TRUE, 200, "OK", TRUE, TRUE, "", "")

Refused == Response(TRUE, 200, "OK", TRUE, FALSE, "", "Model overloaded")

NotJson == Response(TRUE, 200, "OK", FALSE, FALSE, "", "")

\* non-2xx, with and without a JSON body that has an error field
ServerError == Response(FALSE, 500, "Internal Server Error", TRUE, FALSE, "", "Test error")

ServerErrorPlain == Response(FALSE, 500, "Internal Server Error", FALSE, FALSE, "", "")

\* non-2xx, with an error field that holds the digits 500, and a 404 whose
\* body is not JSON
TooLong == Response(FALSE, 400, "Bad Request", TRUE, FALSE, "", "Text exceeds 5000 characters")

NotFoundPlain == Response(FALSE, 404, "Not Found", FALSE, FALSE, "", "")

\* 2xx, success true, with a processedText that is the number 42
Numeric == [Formatted EXCEPT !.processedText = JsNumber("42")]

Responses ==
    {Formatted, Enrichable, NoText, Refused, NotJson, ServerError, ServerErrorPlain, Numeric}

NoResponse ==
    [ok |-> FALSE, status |-> 0, statusText |-> "", json |-> FALSE,
     success |-> FALSE, processedText |-> JsString(""), error |-> ""]

NoError == [name |-> "", message |-> ""]

NoPayload == [text |-> "", prompt |-> "", format |-> "", sessionId |-> "", timestamp |-> 0]

\* the context object processWithAI passes to logError; 0 for a field it omits
Context(format, processingTime, textLength, attempt, retryAttempts) ==
    [format |-> format, processingTime |-> processingTime, textLength |-> textLength,
     attempt |-> attempt, retryAttempts |-> retryAttempts]

\* editorState.lastError before any error: null
NoErrorInfo ==
    [message |-> "", error |-> "", context |-> Context("", 0, 0, 0, 0), timestamp |-> 0]

\* a call that has not been made yet
IdleCall ==
    [ pc |-> "idle", via |-> "", format |-> "", customPrompt |-> "",
      input |-> "", content |-> "",
      startTime |-> 0, button |-> "", originalButtonContent |-> "",
      payload |-> NoPayload, attempt |-> 0, lastError |-> NoError,
      response |-> NoResponse, timers |-> {}, failures |-> <<>>, waits |-> <<>>,
      waitTime |-> 0, outcome |-> "", error |-> NoError,
      fallbackRuns |-> 0, fallbackInput |-> "", notes |-> <<>> ]

\* no direct call of enrichContent yet
NoEnrichCall ==
    [called |-> FALSE, content |-> JsString(""), format |-> "",
     settings |-> [enableIcons |-> TRUE, enablePrefilled |-> TRUE],
     returned |-> JsString("")]

\* no call of insertFormat yet
NoInsertCall ==
    [called |-> FALSE, before |-> "", after |-> "", placeholder |-> "",
     value |-> "", selectionStart |-> 0, selectionEnd |-> 0,
     start |-> 0, end |-> 0, notes |-> <<>>]

\* autoFormat not called yet, its button as the page shows it
IdleAutoCall ==
    [pc |-> "idle", content |-> "", response |-> NoResponse,
     button |-> [textContent |-> "{} Auto Format", disabled |-> FALSE],
     error |-> NoError, alerts |-> <<>>, notes |-> <<>>]

ButtonLabel(format) == "{} " \o format

\* the page once loaded, with one of texts in the editor
InitWith(texts) ==
    /\ editor \in {[value |-> t] : t \in texts}
    /\ editorState = [ content |-> editor.value, currentFormat |-> "",
                       sessionId |-> "session_1", token |-> "",
                       isProcessing |-> FALSE,
                       lastError |-> NoErrorInfo,
                       errors |-> <<>> ]
    /\ buttons = [f \in ButtonFormats |->
                    [innerHTML |-> ButtonLabel(f), disabled |-> FALSE, opacity |-> "", active |-> FALSE]]
    /\ enableIcons = TRUE
    /\ calls = [i \in CallIds |-> IdleCall]
    /\ requests = <<>>
    /\ now = 0
    /\ events = 0
    /\ enrichCall = NoEnrichCall
    /\ insertCall = NoInsertCall
    /\ autoCall = IdleAutoCall

\* --------------------------------------------------------------- helpers

\* a showNotification call: what is shown; each call logs its own in notes,
\* and the element on the page is the one shown last
NoteUnclassified(message, type) == [message |-> message, type |-> ""]

Note(message, type) == [message |-> message, type |-> type]

\* logError: push, set lastError, keep only the last 10
logErrorKeepsFirst(es, message, error, context) ==
    LET errorInfo == [message |-> message, error |-> error.message,
                      context |-> context, timestamp |-> now]
        pushed    == Append(es.errors, errorInfo)
    IN  [es EXCEPT !.lastError = errorInfo,
                   !.errors = IF Len(pushed) > 10 THEN SubSeq(pushed, 1, 10) ELSE pushed]

logError(es, message, error, context) ==
    LET errorInfo == [message |-> message, error |-> error.message,
                      context |-> context, timestamp |-> now]
        pushed    == Append(es.errors, errorInfo)
    IN  [es EXCEPT !.lastError = errorInfo,
                   !.errors = IF Len(pushed) > 10
                              THEN SubSeq(pushed, Len(pushed) - 9, Len(pushed))
                              ELSE pushed]

\* the editor's input listener (script.js 308): editorState.content follows
InputEvent(es, value) == [es EXCEPT !.content = value]

\* the early returns of processWithAI (script.js 561, 566, 572): nothing of
\* editorState is touched
EarlyReturnReleases(es) == [es EXCEPT !.isProcessing = FALSE]

EarlyReturn(es) == es

\* the concurrency check (script.js 570)
NeverLocked(es) == FALSE

Locked(es) == es.isProcessing

\* editorState.isProcessing = true (script.js 575)
AcquireNothing(es) == es

Acquire(es) == [es EXCEPT !.isProcessing = TRUE]

\* the finally block of processWithAI: the flag (script.js 758)
FinallyKeepsFlag(es) == es

Finally(es) == [es EXCEPT !.isProcessing = FALSE]

\* error.name === 'AbortError' (script.js 696)
AbortIsOrdinary(error) == FALSE

IsAbort(error) == error.name = "AbortError"

\* attempt === CONFIG.RETRY_ATTEMPTS (script.js 700)
OneMoreAttempt(attempt) == attempt > RETRY_ATTEMPTS

FinalAttempt(attempt) == attempt = RETRY_ATTEMPTS

\* Math.pow(2, attempt) * 1000 (script.js 705)
LinearBackoff(attempt) == attempt * 1000

Backoff(attempt) == (2 ^ attempt) * 1000

\* the finally block of processWithAI: the button (script.js 760-764)
KeepButton(btns, c) == btns

RestoreButton(btns, c) ==
    IF c.button = "" THEN btns
    ELSE [btns EXCEPT ![c.button] =
            [@ EXCEPT !.innerHTML = c.originalButtonContent, !.disabled = FALSE, !.opacity = "1"]]

\* ------------------------------------------------------------ processWithAI

\* the message shown for a caught error (script.js 723-737)
userMessage(error) ==
    "@ Processing failed: " \o
    ( IF Includes(error.message, "fetch")
      THEN "Network connection issue. Please check your internet connection."
      ELSE IF Includes(error.message, "timeout")
      THEN "Request timed out. The service may be busy, please try again."
      ELSE IF Includes(error.message, "401") \/ Includes(error.message, "403")
      THEN "Authentication error. Please refresh the page."
      ELSE IF Includes(error.message, "429")
      THEN "Rate limit exceeded. Please wait a moment before trying again."
      ELSE IF Includes(error.message, "500") \/ Includes(error.message, "502")
              \/ Includes(error.message, "503")
      THEN "Server error. Please try again later."
      ELSE IF error.message # "" THEN error.message ELSE "Unknown error occurred" )

\* ensureValidToken: what it may resolve to
ensureValidToken(es) ==
    IF ~ENABLE_JWT \/ es.token = "" THEN {TRUE} ELSE BOOLEAN

\* what the outer catch shows for the error caught (script.js 739-743, 545)
FailureNotesSilent(error) ==
    << Note("{} Trying local fallback formatting...", "info"),
       Note("{} Local formatting applied", "info") >>

FailureNotes(error) ==
    IF ENABLE_LOCAL_FALLBACK
    THEN << Note(userMessage(error), "error"),
            Note("{} Trying local fallback formatting...", "info"),
            Note("{} Local formatting applied", "info") >>
    ELSE << Note(userMessage(error), "error") >>

\* the outer catch and the finally block, with the time taken and the text
\* the editor is left with
OuterCatchWith(i, c, error, processingTime, value) ==
    /\ editor' = [editor EXCEPT !.value = value]
    /\ editorState' =
           Finally(InputEvent(logError(editorState, "AI Processing failed", error,
                                       Context(c.format, processingTime, Len(c.content),
                                               0, RETRY_ATTEMPTS)),
                              value))
    /\ buttons' = RestoreButton(buttons, c)
    /\ calls' = [calls EXCEPT ![i] =
            [c EXCEPT !.pc = "returned", !.outcome = "Failed", !.error = error,
                      !.fallbackInput = editor.value,
                      !.fallbackRuns = IF ENABLE_LOCAL_FALLBACK THEN 1 ELSE 0,
                      !.notes = @ \o FailureNotes(error)]]
    /\ UNCHANGED <<enableIcons, requests, now, events, enrichCall, insertCall, autoCall>>

\* The outer catch and the finally block (script.js 714-765), entered with
\* call i's locals c and the error thrown: log, notify, run the local
\* fallback, release the lock, restore the button, return.
\* autoFormatLocal() reads and writes the editor and returns undefined, so
\* the branch on localResult is never taken.
OuterCatch(i, c, error) ==
    OuterCatchWith(i, c, error, now - c.startTime,
                   IF ENABLE_LOCAL_FALLBACK THEN autoFormatLocalText(editor.value)
                   ELSE editor.value)

\* one pass of the retry loop up to its await fetch (script.js 627-642): the
\* body is JSON.stringify(payload), of the payload built before the loop
StartAttemptFresh(i, c, attempt) ==
    /\ calls' = [calls EXCEPT ![i] =
            [c EXCEPT !.pc = "fetch", !.attempt = attempt, !.timers = @ \cup {attempt},
                      !.response = NoResponse]]
    /\ requests' = Append(requests,
            [call |-> i, attempt |-> attempt,
             body |-> [c.payload EXCEPT !.text = Trim(editor.value), !.timestamp = now]])

StartAttempt(i, c, attempt) ==
    LET shown == Note("{} Processing attempt " \o NumToString(attempt) \o "/"
                      \o NumToString(RETRY_ATTEMPTS) \o "...", "info")
    IN  /\ calls' = [calls EXCEPT ![i] =
                [c EXCEPT !.pc = "fetch", !.attempt = attempt,
                          !.timers = @ \cup {attempt},
                          !.response = NoResponse,
                          !.notes = Append(@, shown)]]
        /\ requests' = Append(requests, [call |-> i, attempt |-> attempt, body |-> c.payload])

\* the wait before the next attempt (script.js 704-707)
RetryAtOnce(i, c, waitTime) ==
    /\ StartAttempt(i, c, c.attempt + 1)
    /\ UNCHANGED <<editor, editorState, buttons, enableIcons, now, events, enrichCall, insertCall, autoCall>>

RetryAfterFallback(i, c, waitTime) ==
    /\ calls' = [calls EXCEPT ![i] = [c EXCEPT !.pc = "backoff", !.waitTime = waitTime]]
    /\ editor' = [editor EXCEPT !.value = autoFormatLocalText(editor.value)]
    /\ UNCHANGED <<editorState, buttons, enableIcons, requests, now, events, enrichCall, insertCall, autoCall>>

Retry(i, c, waitTime) ==
    /\ calls' = [calls EXCEPT ![i] =
            [c EXCEPT !.pc = "backoff", !.waitTime = waitTime,
                      !.notes = Append(@, Note("& Retrying in " \o NumToString(waitTime \div 1000)
                                               \o " seconds...", "info"))]]
    /\ UNCHANGED <<editor, editorState, buttons, enableIcons, requests, now, events, enrichCall, insertCall, autoCall>>

\* the catch of the retry loop after lastError = error (script.js 696-707)
Caught(i, c, error) ==
    IF IsAbort(error)
    THEN OuterCatch(i, c, [name |-> "Error",
             message |-> "Processing timeout after " \o NumToString(TIMEOUT_MS \div 1000) \o " seconds"])
    ELSE IF FinalAttempt(c.attempt)
    THEN OuterCatch(i, c, error)
    ELSE Retry(i, c, Backoff(c.attempt))

\* the catch of the retry loop (script.js 693-708) with the error caught
CatchAttemptNoRetry(i, c, error) ==
    OuterCatch(i, [c EXCEPT !.lastError = error, !.response = NoResponse,
                            !.failures = Append(@, error)], error)

CatchAttempt(i, c, error) ==
    Caught(i, [c EXCEPT !.lastError = error, !.response = NoResponse,
                        !.failures = Append(@, error)], error)

\* the success branch and the finally block, with the time taken and the
\* enriched text
SucceedWith(i, c, es, processingTime, enrichedText) ==
    /\ editor' = [editor EXCEPT !.value = enrichedText]
    /\ editorState' =
           Finally(logError(InputEvent(es, enrichedText), "AI processing completed",
                            NoError,
                            Context(c.format, processingTime, Len(c.content), c.attempt, 0)))
    /\ buttons' = RestoreButton(buttons, c)
    /\ calls' = [calls EXCEPT ![i] =
            [c EXCEPT !.pc = "returned", !.outcome = "Succeeded",
                      !.response = NoResponse,
                      !.notes = Append(@, Note("@ " \o c.format \o " formatting completed! ("
                                               \o NumToString(processingTime) \o "ms)", "success"))]]
    /\ UNCHANGED <<enableIcons, requests, now, events, enrichCall, insertCall, autoCall>>

\* editorState once enrichContent has returned: its catch logs the error
AfterEnrich(es, content, format, settings) ==
    IF EnrichThrows(content)
    THEN logError(es, "Content enrichment failed", EnrichError(format, settings),
                  Context("", 0, 0, 0, 0))
    ELSE es

\* the success branch with the settings read from the page
SucceedUnder(i, c, settings) ==
    SucceedWith(i, c, AfterEnrich(editorState, c.response.processedText, c.format, settings),
                now - c.startTime,
                EnrichedText(c.response.processedText, c.format, settings).text)

\* the success branch (script.js 659-687) and the finally block
Succeed(i, c) ==
    SucceedUnder(i, c, [enableIcons |-> enableIcons, enablePrefilled |-> TRUE])

\* the button processWithAI updates: the element passed, or the one
\* document.querySelector finds for the format ("" when there is none)
ButtonOf(element, format) ==
    IF element.type = "button" THEN element.value
    ELSE IF format \in ButtonFormats THEN format ELSE ""

\* processWithAI from its entry to its first await (script.js 549-591), as
\* call i with arguments args, on the editorState es and buttons btns
\* its caller left
Invoke(i, via, args, es, btns) ==
    LET format  == IF args.element.type = "string" THEN args.element.value ELSE args.format
        element == IF args.element.type = "string" THEN NullElement ELSE args.element
        content == Trim(editor.value)
        called  == [calls[i] EXCEPT !.via = via, !.format = format,
                                    !.customPrompt = args.customPrompt,
                                    !.input = editor.value, !.content = content]
        rejected(outcome, shown) ==
            /\ calls' = [calls EXCEPT ![i] =
                    [called EXCEPT !.pc = "returned", !.outcome = outcome, !.notes = <<shown>>]]
            /\ editorState' = EarlyReturn(es)
            /\ buttons' = btns
    IN  IF content = ""
        THEN rejected("ValidationError",
                      Note("{} Please enter some text to process first", "warning"))
        ELSE IF Len(content) > MAX_TEXT_LENGTH
        THEN rejected("ValidationError",
                      Note("@& Text is too long. Please limit to " \o NumToString(MAX_TEXT_LENGTH)
                           \o " characters. Current: " \o NumToString(Len(content)), "warning"))
        ELSE IF Locked(es)
        THEN rejected("Busy",
                      Note("& Please wait for current processing to complete", "info"))
        ELSE LET button == ButtonOf(element, format)
             IN  /\ editorState' = Acquire(es)
                 /\ buttons' = IF button = "" THEN btns
                               ELSE [btns EXCEPT ![button] =
                                       [@ EXCEPT !.innerHTML = "{} Processing...",
                                                 !.disabled = TRUE, !.opacity = "0.6"]]
                 /\ calls' = [calls EXCEPT ![i] =
                        [called EXCEPT !.pc = "ensureValidToken", !.startTime = now,
                                       !.button = button,
                                       !.originalButtonContent =
                                           IF button = "" THEN "" ELSE btns[button].innerHTML]]

\* the next call of the session
NextCall(i) == calls[i].pc = "idle" /\ \A j \in 1..(i - 1) : calls[j].pc # "idle"

\* a direct call of processWithAI (README: API Reference)
ProcessWithAI(i, args) ==
    /\ NextCall(i)
    /\ Invoke(i, "processWithAI", args, editorState, buttons)
    /\ UNCHANGED <<editor, enableIcons, requests, now, events, enrichCall, insertCall, autoCall>>

\* the literal limit applyFormat compares with
ApplyFormatLimit == 1000

\* applyFormat, the click handler of a format button (script.js 886-902),
\* with useTemplate (904-1166) for empty or very long content
ApplyFormat(i, format) ==
    LET btns    == [f \in ButtonFormats |-> [buttons[f] EXCEPT !.active = (f = format)]]
        es      == [editorState EXCEPT !.currentFormat = format]
        content == Trim(editor.value)
    IN  IF content # "" /\ Len(content) <= ApplyFormatLimit
        THEN /\ NextCall(i)
             /\ Invoke(i, "applyFormat",
                       [element |-> [type |-> "string", value |-> format],
                        format |-> "", customPrompt |-> ""], es, btns)
             /\ UNCHANGED <<editor, enableIcons, requests, now, events, enrichCall, insertCall, autoCall>>
        ELSE /\ i = 1
             /\ events < MaxEvents
             /\ events' = events + 1
             /\ buttons' = btns
             /\ IF templates(format) # ""
                THEN /\ editor' = [editor EXCEPT !.value = templates(format)]
                     /\ editorState' = InputEvent(es, templates(format))
                ELSE /\ editor' = editor
                     /\ editorState' = es
             /\ UNCHANGED <<enableIcons, calls, requests, now, enrichCall, insertCall, autoCall>>

\* customPrompt || prompts[format] || the generic prompt (script.js 609)
TemplateFirst(customPrompt, format) ==
    IF prompts(format) # "" THEN prompts(format)
    ELSE IF customPrompt # "" THEN customPrompt
    ELSE GenericPrompt

Prompt(customPrompt, format) ==
    IF customPrompt # "" THEN customPrompt
    ELSE IF prompts(format) # "" THEN prompts(format)
    ELSE GenericPrompt

\* await ensureValidToken() settles (script.js 589-627): the prompt is chosen,
\* the payload built and the first attempt issued
AfterEnsureValidToken(i, tokenValid) ==
    /\ calls[i].pc = "ensureValidToken"
    /\ tokenValid \in ensureValidToken(editorState)
    /\ LET c == calls[i] IN
       IF ~tokenValid /\ ENABLE_JWT
       THEN OuterCatch(i, c, [name |-> "Error",
                message |-> "Authentication failed. Please refresh the page and try again."])
       ELSE LET prompt  == Prompt(c.customPrompt, c.format)
                payload == [text |-> c.content, prompt |-> prompt, format |-> c.format,
                            sessionId |-> IF editorState.sessionId # ""
                                          THEN editorState.sessionId ELSE "anonymous",
                            timestamp |-> now]
            IN  /\ StartAttempt(i, [c EXCEPT !.payload = payload], 1)
                /\ UNCHANGED <<editor, editorState, buttons, enableIcons, now, events, enrichCall, insertCall, autoCall>>

\* fetch resolves with a Response: the timer is cleared and the body is read
FetchResolves(i, response) ==
    /\ calls[i].pc = "fetch"
    /\ calls' = [calls EXCEPT ![i] =
            [@ EXCEPT !.pc = IF response.ok THEN "json" ELSE "errorJson",
                      !.response = response,
                      !.timers = @ \ {calls[i].attempt}]]
    /\ UNCHANGED <<editor, editorState, buttons, enableIcons, requests, now, events, enrichCall, insertCall, autoCall>>

\* fetch rejects: the network failed (the timer stays armed)
FetchRejects(i) ==
    /\ calls[i].pc = "fetch"
    /\ CatchAttempt(i, calls[i], [name |-> "TypeError", message |-> "Failed to fetch"])

\* controller.abort() of attempt n, with the locals c of call i: it rejects
\* that attempt's fetch with an AbortError if it is still pending
AbortAnyAttempt(i, n, c) ==
    IF c.pc = "fetch"
    THEN CatchAttempt(i, c, [name |-> "AbortError", message |-> "The user aborted a request."])
    ELSE /\ calls' = [calls EXCEPT ![i] = c]
         /\ UNCHANGED <<editor, editorState, buttons, enableIcons, requests, now, events, enrichCall, insertCall, autoCall>>

AbortNothing(i, n, c) ==
    /\ calls' = [calls EXCEPT ![i] = c]
    /\ UNCHANGED <<editor, editorState, buttons, enableIcons, requests, now, events, enrichCall, insertCall, autoCall>>

Abort(i, n, c) ==
    IF c.pc = "fetch" /\ c.attempt = n
    THEN CatchAttempt(i, c, [name |-> "AbortError", message |-> "The user aborted a request."])
    ELSE /\ calls' = [calls EXCEPT ![i] = c]
         /\ UNCHANGED <<editor, editorState, buttons, enableIcons, requests, now, events, enrichCall, insertCall, autoCall>>

\* the timer armed for attempt n fires (script.js 632)
TimerFires(i, n) ==
    /\ n \in calls[i].timers
    /\ Abort(i, n, [calls[i] EXCEPT !.timers = @ \ {n}])

\* await response.json() of a non-2xx response settles (script.js 646-655)
ErrorJsonSettles(i) ==
    /\ calls[i].pc = "errorJson"
    /\ LET r == calls[i].response
           statusLine == "HTTP " \o NumToString(r.status) \o ": " \o r.statusText
           errorMessage == IF r.json /\ r.error # "" THEN r.error ELSE statusLine
       IN  CatchAttempt(i, calls[i], [name |-> "Error", message |-> errorMessage])

\* the result of a 2xx response is read (script.js 657-691)
ReadResult(i, c, r) ==
    IF ~r.json
    THEN CatchAttempt(i, c, [name |-> "SyntaxError",
             message |-> "Unexpected token < in JSON at position 0"])
    ELSE IF r.success /\ Truthy(r.processedText)
    THEN Succeed(i, c)
    ELSE CatchAttempt(i, c, [name |-> "Error",
             message |-> IF r.error # "" THEN r.error
                         ELSE "Processing failed - no processed text returned"])

\* await response.json() of a 2xx response settles (script.js 657-691)
JsonSettles(i) ==
    /\ calls[i].pc = "json"
    /\ ReadResult(i, calls[i], calls[i].response)

\* the backoff timer of script.js 707 fires: the loop goes to the next attempt
BackoffElapsed(i) ==
    /\ calls[i].pc = "backoff"
    /\ now' = now + calls[i].waitTime
    /\ StartAttempt(i, [calls[i] EXCEPT !.waits = Append(@, calls[i].waitTime)],
                    calls[i].attempt + 1)
    /\ UNCHANGED <<editor, editorState, buttons, enableIcons, events, enrichCall, insertCall, autoCall>>

\* the user types or pastes: the editor's input listener runs
UserInput(text) ==
    /\ editor.value # text
    /\ events < MaxEvents
    /\ events' = events + 1
    /\ editor' = [editor EXCEPT !.value = text]
    /\ editorState' = InputEvent(editorState, text)
    /\ UNCHANGED <<buttons, enableIcons, calls, requests, now, enrichCall, insertCall, autoCall>>

\* the user toggles the icons checkbox (script.js 184-188)
ToggleIcons ==
    /\ events < MaxEvents
    /\ events' = events + 1
    /\ enableIcons' = ~enableIcons
    /\ UNCHANGED <<editor, editorState, buttons, calls, requests, now, enrichCall, insertCall, autoCall>>

\* the texts of Texts within the limit
ShortTexts == {"", "Hello step"}

\* Invocations that may overlap: processWithAI('tutorial') and clicks on the
\* twitter-post button, on a short text, with a service that answers each
\* request with a result or a server error, or not at all.
Init ==
    InitWith(ShortTexts)

Next ==
    \/ \E i \in CallIds : ProcessWithAI(i, TutorialCall)
    \/ \E i \in CallIds : ApplyFormat(i, "twitter-post")
    \/ \E i \in CallIds, tokenValid \in BOOLEAN : AfterEnsureValidToken(i, tokenValid)
    \/ \E i \in CallIds, response \in {Formatted, ServerError} : FetchResolves(i, response)
    \/ \E i \in CallIds : FetchRejects(i)
    \/ \E i \in CallIds, n \in 1..RETRY_ATTEMPTS : TimerFires(i, n)
    \/ \E i \in CallIds : ErrorJsonSettles(i)
    \/ \E i \in CallIds : JsonSettles(i)
    \/ \E i \in CallIds : BackoffElapsed(i)
    \/ \E text \in ShortTexts : UserInput(text)
    \/ ToggleIcons

Spec == Init /\ [][Next]_vars

\* One invocation, called in any way on a short text, and a service that may
\* answer each of its requests in any of the ways of Responses.
NextRetry ==
    \/ \E args \in CallArgs : ProcessWithAI(1, args)
    \/ \E format \in ButtonFormats : ApplyFormat(1, format)
    \/ \E tokenValid \in BOOLEAN : AfterEnsureValidToken(1, tokenValid)
    \/ \E response \in Responses : FetchResolves(1, response)
    \/ FetchRejects(1)
    \/ \E n \in 1..RETRY_ATTEMPTS : TimerFires(1, n)
    \/ ErrorJsonSettles(1)
    \/ JsonSettles(1)
    \/ BackoffElapsed(1)
    \/ \E text \in ShortTexts : UserInput(text)
    \/ ToggleIcons

SpecRetry == Init /\ [][NextRetry]_vars

\* One invocation, called in any way on any of Texts, the texts at the limit
\* included.
InitValidate ==
    InitWith(Texts)

NextValidate ==
    \/ \E args \in CallArgs : ProcessWithAI(1, args)
    \/ \E format \in ButtonFormats : ApplyFormat(1, format)
    \/ \E tokenValid \in BOOLEAN : AfterEnsureValidToken(1, tokenValid)
    \/ \E response \in {Formatted, ServerError} : FetchResolves(1, response)
    \/ FetchRejects(1)
    \/ \E n \in 1..RETRY_ATTEMPTS : TimerFires(1, n)
    \/ ErrorJsonSettles(1)
    \/ JsonSettles(1)
    \/ BackoffElapsed(1)
    \/ \E text \in Texts : UserInput(text)
    \/ ToggleIcons

SpecValidate == InitValidate /\ [][NextValidate]_vars

\* calls with and without a prompt of the caller's, for a format with a
\* template and for one without
PromptArgs ==
    { TutorialCall,
      [element |-> NullElement, format |-> "tutorial", customPrompt |-> "Make it short."],
      [element |-> NullElement, format |-> "unknown", customPrompt |-> ""],
      [element |-> NullElement, format |-> "unknown", customPrompt |-> "Make it short."] }

\* Invocations called with any of PromptArgs on a short text.
NextPrompt ==
    \/ \E i \in CallIds, args \in PromptArgs : ProcessWithAI(i, args)
    \/ \E i \in CallIds : AfterEnsureValidToken(i, TRUE)
    \/ \E i \in CallIds, response \in {Formatted, ServerError} : FetchResolves(i, response)
    \/ \E i \in CallIds, n \in 1..RETRY_ATTEMPTS : TimerFires(i, n)
    \/ \E i \in CallIds : ErrorJsonSettles(i)
    \/ \E i \in CallIds : JsonSettles(i)
    \/ \E i \in CallIds : BackoffElapsed(i)

SpecPrompt == Init /\ [][NextPrompt]_vars

\* Invocations that may overlap, all processWithAI('tutorial'), with a
\* service that answers with a result, with a body that is not JSON, with a
\* server error, or not at all; the user does nothing else.
NextNotify ==
    \/ \E i \in CallIds : ProcessWithAI(i, TutorialCall)
    \/ \E i \in CallIds : AfterEnsureValidToken(i, TRUE)
    \/ \E i \in CallIds, response \in {Formatted, NotJson, ServerError} : FetchResolves(i, response)
    \/ \E i \in CallIds, n \in 1..RETRY_ATTEMPTS : TimerFires(i, n)
    \/ \E i \in CallIds : ErrorJsonSettles(i)
    \/ \E i \in CallIds : JsonSettles(i)
    \/ \E i \in CallIds : BackoffElapsed(i)

SpecNotify == Init /\ [][NextNotify]_vars

\* a well-formed response with a short text
Brief == Response(TRUE, 200, "OK", TRUE, TRUE, "# Ok", "")

\* short texts: an empty one and one the local formatter leaves as it is
LiveTexts == {"", "# Hi"}

\* One invocation, processWithAI('tutorial') on a short text the user may
\* replace, each request of which is answered (well or badly), fails, or
\* stays unanswered.
InitLive ==
    InitWith(LiveTexts)

NextLive ==
    \/ ProcessWithAI(1, TutorialCall)
    \/ AfterEnsureValidToken(1, TRUE)
    \/ \E response \in {Brief, NotJson, ServerError} : FetchResolves(1, response)
    \/ FetchRejects(1)
    \/ \E n \in 1..RETRY_ATTEMPTS : TimerFires(1, n)
    \/ ErrorJsonSettles(1)
    \/ JsonSettles(1)
    \/ BackoffElapsed(1)
    \/ \E text \in LiveTexts : UserInput(text)

\* What the event loop guarantees of an invocation: an async function that
\* returns resolves its promise, an armed timer fires (the abort timer after
\* TIMEOUT_MS, the backoff timer after waitTime), and the body of a response
\* that has arrived is read. Nothing is assumed of fetch itself: a request
\* may stay unanswered for ever.
Fairness ==
    \A i \in CallIds :
        /\ WF_vars(AfterEnsureValidToken(i, TRUE))
        /\ \A n \in 1..RETRY_ATTEMPTS : WF_vars(TimerFires(i, n))
        /\ WF_vars(ErrorJsonSettles(i))
        /\ WF_vars(JsonSettles(i))
        /\ WF_vars(BackoffElapsed(i))

SpecLive == InitLive /\ [][NextLive]_vars /\ Fairness

\* the same invocation, nothing assumed of the event loop
SpecAttempts == InitLive /\ [][NextLive]_vars

\* Invocations that may overlap, all processWithAI('tutorial'), with a
\* service that refuses every request: with or without a JSON body, with or
\* without an error field, the field holding the digits of a status or not.
NextErrors ==
    \/ \E i \in CallIds : ProcessWithAI(i, TutorialCall)
    \/ \E i \in CallIds : AfterEnsureValidToken(i, TRUE)
    \/ \E i \in CallIds, response \in {ServerError, ServerErrorPlain, TooLong, NotFoundPlain} :
          FetchResolves(i, response)
    \/ \E i \in CallIds, n \in 1..RETRY_ATTEMPTS : TimerFires(i, n)
    \/ \E i \in CallIds : ErrorJsonSettles(i)
    \/ \E i \in CallIds : BackoffElapsed(i)

SpecErrors == Init /\ [][NextErrors]_vars

\* enrichContent called on its own, as a function of its three arguments
\* (script.js 1334-1368)
EnrichContent(content, format, settings) ==
    /\ events < MaxEvents
    /\ events' = events + 1
    /\ enrichCall' = [called |-> TRUE, content |-> content, format |-> format,
                      settings |-> settings,
                      returned |-> EnrichedText(content, format, settings)]
    /\ editorState' = AfterEnrich(editorState, content, format, settings)
    /\ UNCHANGED <<editor, buttons, enableIcons, calls, requests, now, insertCall, autoCall>>

\* the format kinds: the four with an enrichment of their own, one of the
\* others with a prompt, and one the application does not know
FormatKinds ==
    {"twitter-post", "linkedin-post", "peerlist-article", "dailydev-article",
     "tutorial", "unknown"}

\* the settings objects: both checkboxes, either way
SettingsValues == [enableIcons : BOOLEAN, enablePrefilled : BOOLEAN]

\* texts a service may return, the empty text, and a number
Contents ==
    { JsString(""), JsString("# Step 1: Hello"), JsString("Hi.There @ ~ {}"),
      JsString("a\nb\nc\nd"), JsString("const x\n$$$\ny"), JsNumber("42") }

\* enrichContent on its own, on every content, format kind and settings value
NextEnrich ==
    \E content \in Contents, format \in FormatKinds, settings \in SettingsValues :
        EnrichContent(content, format, settings)

SpecEnrich == Init /\ [][NextEnrich]_vars

\* newTotalLength > CONFIG.MAX_TEXT_LENGTH (script.js 402)
NeverExceeds(newTotalLength) == FALSE

ExceedsLimit(newTotalLength) == newTotalLength > MAX_TEXT_LENGTH

\* insertFormat(before, after, placeholder) (script.js 388-422), called with
\* the selection [selectionStart, selectionEnd) in the editor; the editor's
\* input listener runs when the text is replaced
InsertFormat(before, after, placeholder, selectionStart, selectionEnd) ==
    /\ events < MaxEvents
    /\ selectionStart <= selectionEnd /\ selectionEnd <= Len(editor.value)
    /\ events' = events + 1
    /\ LET selectedText   == SubSeq(editor.value, selectionStart + 1, selectionEnd)
           textToInsert   == IF selectedText # "" THEN selectedText ELSE placeholder
           newText        == before \o textToInsert \o after
           newTotalLength == Len(editor.value) - (selectionEnd - selectionStart) + Len(newText)
           value          == SubSeq(editor.value, 1, selectionStart) \o newText
                             \o SubSeq(editor.value, selectionEnd + 1, Len(editor.value))
           call           == [called |-> TRUE, before |-> before, after |-> after,
                              placeholder |-> placeholder, value |-> editor.value,
                              selectionStart |-> selectionStart, selectionEnd |-> selectionEnd,
                              start |-> selectionStart, end |-> selectionEnd, notes |-> <<>>]
       IN  IF ExceedsLimit(newTotalLength)
           THEN /\ insertCall' = [call EXCEPT !.notes =
                        <<Note("@& Text would exceed character limit", "warning")>>]
                /\ UNCHANGED <<editor, editorState>>
           ELSE /\ editor' = [editor EXCEPT !.value = value]
                /\ editorState' = InputEvent(editorState, value)
                /\ insertCall' =
                       IF selectedText = ""
                       THEN [call EXCEPT !.start = selectionStart + Len(before),
                                         !.end = selectionStart + Len(before) + Len(placeholder)]
                       ELSE [call EXCEPT !.start = selectionStart + Len(newText),
                                         !.end = selectionStart + Len(newText)]
    /\ UNCHANGED <<buttons, enableIcons, calls, requests, now, enrichCall, autoCall>>

\* what a toolbar button passes to insertFormat: before, after, placeholder
Formats == {<<"**", "**", "bold">>, <<"# ", "", "Heading">>, <<"[", "](url)", "link text">>}

\* texts of the editor, short and at the limit
InsertTexts ==
    { "", "hello world", Repeat("a", MAX_TEXT_LENGTH - 6), Repeat("a", MAX_TEXT_LENGTH - 4),
      Repeat("a", MAX_TEXT_LENGTH), Repeat("a", MAX_TEXT_LENGTH + 1) }

\* where a selection may begin and end
Positions == {0, 5, 6, 11, MAX_TEXT_LENGTH - 6, MAX_TEXT_LENGTH}

InitInsert ==
    InitWith(InsertTexts)

\* The toolbar buttons, clicked with any selection in the editor.
NextInsert ==
    \E f \in Formats, selectionStart \in Positions, selectionEnd \in Positions :
        InsertFormat(f[1], f[2], f[3], selectionStart, selectionEnd)

SpecInsert == InitInsert /\ [][NextInsert]_vars

\* logError called on its own (script.js 75-93), a millisecond after the
\* call before
LogError(message, error) ==
    /\ now < MaxLogs
    /\ now' = now + 1
    /\ editorState' = logError(editorState, message, error, Context("", 0, 0, 0, 0))
    /\ UNCHANGED <<editor, buttons, enableIcons, calls, requests, events, enrichCall, insertCall, autoCall>>

\* messages the application logs outside processWithAI
LogMessages == {"Stats update failed", "Preview update failed"}

\* logError on its own, more often than the log has room for
NextLog ==
    \E message \in LogMessages :
        LogError(message, [name |-> "TypeError", message |-> "Failed to fetch"])

SpecLog == Init /\ [][NextLog]_vars

\* ---------------------------------------------------------------- autoFormat

\* the format autoFormat detects in the content (script.js 457-464)
DetectedFormat(content) ==
    IF Includes(content, "function") \/ Includes(content, "const") \/ Includes(content, "class")
    THEN "dev-article"
    ELSE IF Includes(ToLowerCase(content), "step") \/ Includes(ToLowerCase(content), "tutorial")
    THEN "tutorial"
    ELSE IF Includes(content, "please") \/ Includes(content, "can you") \/ Includes(content, "prompt")
    THEN "chatgpt-prompt"
    ELSE "general"

\* the finally block of autoFormat (script.js 520-527)
AutoFinally(a) ==
    [a EXCEPT !.pc = "returned",
              !.button = [textContent |-> "{} Auto Format", disabled |-> FALSE]]

\* the catch and the finally block of autoFormat (script.js 507-527), with
\* the locals a and the error caught
AutoCatch(a, error) ==
    IF Includes(error.message, "Rate limit")
    THEN /\ autoCall' = AutoFinally([a EXCEPT !.error = error, !.notes = Append(@,
                 Note("@& Rate limit exceeded. Please wait before trying again.", "warning"))])
         /\ UNCHANGED <<editor, editorState>>
    ELSE IF Includes(error.message, "Authentication")
    THEN /\ autoCall' = AutoFinally([a EXCEPT !.error = error, !.notes = Append(@,
                 Note("{} Authentication failed. Please refresh the page.", "error"))])
         /\ UNCHANGED <<editor, editorState>>
    ELSE /\ autoCall' = AutoFinally([a EXCEPT !.error = error, !.notes = @ \o
                 << Note("@ Error: " \o error.message, "error"),
                    Note("{} Local formatting applied", "info") >>])
         /\ editor' = [editor EXCEPT !.value = autoFormatLocalText(editor.value)]
         /\ editorState' = InputEvent(editorState, autoFormatLocalText(editor.value))

\* autoFormat from its entry to its first await (script.js 425-452)
AutoFormat ==
    /\ autoCall.pc = "idle"
    /\ LET content == Trim(editor.value) IN
       IF content = ""
       THEN autoCall' = [autoCall EXCEPT !.pc = "returned",
                             !.alerts = <<"Please enter some text to format.">>]
       ELSE IF Len(content) > 1000
       THEN autoCall' = [autoCall EXCEPT !.pc = "returned",
                             !.alerts = <<"Text is too long. Please limit to 1000 characters.">>]
       ELSE autoCall' = [autoCall EXCEPT !.pc = "ensureValidToken", !.content = content,
                             !.button = [textContent |-> "{} Processing...", disabled |-> TRUE]]
    /\ UNCHANGED <<editor, editorState, buttons, enableIcons, calls, requests, now, events,
                   enrichCall, insertCall>>

\* await ensureValidToken() settles: the payload is built and posted
\* (script.js 452-488)
AutoAfterEnsureValidToken(tokenValid) ==
    /\ autoCall.pc = "ensureValidToken"
    /\ tokenValid \in ensureValidToken(editorState)
    /\ IF ~tokenValid /\ ENABLE_JWT
       THEN /\ AutoCatch(autoCall, [name |-> "Error", message |-> "Authentication failed"])
            /\ UNCHANGED requests
       ELSE /\ autoCall' = [autoCall EXCEPT !.pc = "fetch"]
            /\ requests' = Append(requests,
                   [call |-> 0, attempt |-> 1,
                    body |-> [text |-> autoCall.content,
                              prompt |-> "Format this text for better readability and structure",
                              format |-> DetectedFormat(autoCall.content),
                              sessionId |-> IF editorState.sessionId # ""
                                            THEN editorState.sessionId ELSE "anonymous"]])
            /\ UNCHANGED <<editor, editorState>>
    /\ UNCHANGED <<buttons, enableIcons, calls, now, events, enrichCall, insertCall>>

\* the fetch of autoFormat resolves with a Response
AutoFetchResolves(response) ==
    /\ autoCall.pc = "fetch"
    /\ autoCall' = [autoCall EXCEPT !.pc = IF response.ok THEN "json" ELSE "errorJson",
                                    !.response = response]
    /\ UNCHANGED <<editor, editorState, buttons, enableIcons, calls, requests, now, events,
                   enrichCall, insertCall>>

\* the fetch of autoFormat rejects: the network failed
AutoFetchRejects ==
    /\ autoCall.pc = "fetch"
    /\ AutoCatch(autoCall, [name |-> "TypeError", message |-> "Failed to fetch"])
    /\ UNCHANGED <<buttons, enableIcons, calls, requests, now, events, enrichCall, insertCall>>

\* await response.json() of a non-2xx response settles (script.js 490-493)
AutoErrorJsonSettles ==
    /\ autoCall.pc = "errorJson"
    /\ LET r == autoCall.response IN
       AutoCatch(autoCall,
                 IF ~r.json
                 THEN [name |-> "SyntaxError",
                       message |-> "Unexpected token < in JSON at position 0"]
                 ELSE [name |-> "Error",
                       message |-> IF r.error # "" THEN r.error ELSE "Processing failed"])
    /\ UNCHANGED <<buttons, enableIcons, calls, requests, now, events, enrichCall, insertCall>>

\* await response.json() of a 2xx response settles (script.js 495-505): the
\* processed text is written to the editor
AutoJsonSettles ==
    /\ autoCall.pc = "json"
    /\ LET r == autoCall.response IN
       IF ~r.json
       THEN AutoCatch(autoCall, [name |-> "SyntaxError",
                message |-> "Unexpected token < in JSON at position 0"])
       ELSE IF r.success
       THEN /\ editor' = [editor EXCEPT !.value = r.processedText.text]
            /\ editorState' = InputEvent(editorState, r.processedText.text)
            /\ autoCall' = AutoFinally([autoCall EXCEPT !.notes = Append(@,
                    Note("@ Auto-formatting completed!", "success"))])
       ELSE AutoCatch(autoCall, [name |-> "Error",
                message |-> IF r.error # "" THEN r.error ELSE "Processing failed"])
    /\ UNCHANGED <<buttons, enableIcons, calls, requests, now, events, enrichCall, insertCall>>

\* One processWithAI('tutorial') invocation and one autoFormat invocation on
\* the same page, in any order and interleaving, each request answered with
\* a result or a server error, or failing.
NextAuto ==
    \/ ProcessWithAI(1, TutorialCall)
    \/ AfterEnsureValidToken(1, TRUE)
    \/ \E response \in {Formatted, ServerError} : FetchResolves(1, response)
    \/ FetchRejects(1)
    \/ ErrorJsonSettles(1)
    \/ JsonSettles(1)
    \/ BackoffElapsed(1)
    \/ AutoFormat
    \/ AutoAfterEnsureValidToken(TRUE)
    \/ \E response \in {Brief, ServerError} : AutoFetchResolves(response)
    \/ AutoFetchRejects
    \/ AutoErrorJsonSettles
    \/ AutoJsonSettles

SpecAuto == Init /\ [][NextAuto]_vars

\* line lengths around the 280 characters of a tweet
LineLengths == {1, 275, 276, 280, 281}

\* a text of two lines, of n and m characters
TwoLines(n, m) == Repeat("a", n) \o "\n" \o Repeat("b", m)

\* enrichContent on its own for the twitter-post format, on texts of two
\* lines of every length of LineLengths
NextTweets ==
    \E n \in LineLengths, m \in LineLengths, settings \in SettingsValues :
        EnrichContent(JsString(TwoLines(n, m)), "twitter-post", settings)

SpecTweets == Init /\ [][NextTweets]_vars

\* how long a text may be for enrichLinkedInContent to be applied to it again
MaxEnrichedLength == 200

\* enrichLinkedInContent called on its own (script.js 1396-1409)
EnrichLinkedIn(content, settings) ==
    /\ Len(content) <= MaxEnrichedLength
    /\ enrichCall' = [called |-> TRUE, content |-> JsString(content),
                      format |-> "linkedin-post", settings |-> settings,
                      returned |-> JsString(enrichLinkedInContent(content, settings))]
    /\ UNCHANGED <<editor, editorState, buttons, enableIcons, calls, requests, now, events,
                   insertCall, autoCall>>

\* the first call, on a text of the caller's
EnrichLinkedInFirst(content, settings) ==
    ~enrichCall.called /\ EnrichLinkedIn(content, settings)

\* a further call, on the text the call before returned
EnrichLinkedInAgain ==
    enrichCall.called /\ EnrichLinkedIn(enrichCall.returned.text, enrichCall.settings)

\* texts with and without the phrases enrichLinkedInContent looks for
LinkedInTexts ==
    { "", "Hello", "# Step 1: Hello", "a\n\n\n\nb", "What do you think?",
      "Share your thoughts below", "What are your thoughts on this?",
      "Hello\n\nShare your experience in the comments below!" }

\* enrichLinkedInContent on a text of LinkedInTexts, and then on what it
\* returned, again and again
NextLinkedIn ==
    \/ \E content \in LinkedInTexts, settings \in SettingsValues :
          EnrichLinkedInFirst(content, settings)
    \/ EnrichLinkedInAgain

SpecLinkedIn == Init /\ [][NextLinkedIn]_vars

\* ------------------------------------------------------------- properties

\* the requests call i has issued
RequestsOf(i) == Cardinality({k \in 1..Len(requests) : requests[k].call = i})

\* call i was accepted and has not returned
InFlight(i) == calls[i].pc \in {"ensureValidToken", "fetch", "json", "errorJson", "backoff"}

\* this step is the call of invocation i, up to its first await or its return
Called(i) == calls[i].pc = "idle" /\ calls'[i].pc # "idle"

\* this step is the one in which invocation i returns
Returns(i) == calls[i].pc # "returned" /\ calls'[i].pc = "returned"

WhitespaceOnly(s) == \A k \in 1..Len(s) : CharAt(s, k) \in Whitespace

\* the text passes the validation of processWithAI
ValidText(s) == Trim(s) # "" /\ Len(Trim(s)) <= MAX_TEXT_LENGTH

\* what processWithAI changes of a button while it runs
ButtonLook(b) == <<b.innerHTML, b.disabled, b.opacity>>

\* a call made while the flag is set returns with outcome, issues no request
\* and leaves the flag, the other invocations and the buttons as they were
RejectedWhileProcessing(j, outcome) ==
    /\ calls'[j].pc = "returned"
    /\ calls'[j].outcome = outcome
    /\ requests' = requests
    /\ editorState'.isProcessing
    /\ \A i \in CallIds \ {j} : calls'[i] = calls[i]
    /\ \A f \in ButtonFormats : ButtonLook(buttons'[f]) = ButtonLook(buttons[f])

\* C1 (as stated): whenever processWithAI is called while isProcessing is
\* true, the call returns as Busy, issues no request and leaves the in-flight
\* invocation untouched.
C1_AlwaysBusy ==
    [][\A j \in CallIds :
        (Called(j) /\ editorState.isProcessing) => RejectedWhileProcessing(j, "Busy")]_vars

\* C1 (amended): a call made while isProcessing is true returns at once, as
\* Busy when the editor's text passes validation and as a ValidationError when
\* it is empty or too long; either way it issues no request, is never run
\* later, and leaves the flag, the in-flight invocation and the buttons as
\* they were.
C1_BusyOrInvalid ==
    [][\A j \in CallIds :
        /\ (Called(j) /\ editorState.isProcessing) =>
              RejectedWhileProcessing(j, IF ValidText(editor.value)
                                         THEN "Busy" ELSE "ValidationError")
        /\ calls[j].outcome \in {"Busy", "ValidationError"} => calls'[j] = calls[j]]_vars

C1_BusyWhileBackingOff ==
    \E i, j \in CallIds :
        /\ calls[i].pc = "backoff" /\ editorState.isProcessing
        /\ calls[j].pc = "returned" /\ calls[j].outcome = "Busy"
        /\ RequestsOf(j) = 0

\* C2: in every interleaving of processWithAI and applyFormat calls at most
\* one invocation has passed the lock check and not yet returned (so at most
\* one payload is in flight), and the flag is set exactly while there is one.
C2_SingleFlight ==
    /\ Cardinality({i \in CallIds : InFlight(i)}) <= 1
    /\ editorState.isProcessing <=> (\E i \in CallIds : InFlight(i))

C2_SecondRejectedDuringFetch ==
    \E i, j \in CallIds :
        /\ calls[i].pc = "fetch" /\ calls[i].via = "processWithAI"
        /\ calls[j].pc = "returned" /\ calls[j].outcome = "Busy"
        /\ calls[j].via = "applyFormat"

\* C3: an invocation that set isProcessing clears it on every exit path: in
\* the step in which an accepted invocation returns (success on any attempt,
\* retries exhausted, timeout), isProcessing becomes false.
C3_ReleasedOnReturn ==
    [][\A i \in CallIds :
        (InFlight(i) /\ calls'[i].pc = "returned") => ~editorState'.isProcessing]_vars

C3_ReturnedAfterTimeout ==
    \E i \in CallIds :
        /\ calls[i].pc = "returned" /\ calls[i].outcome = "Failed"
        /\ calls[i].error.message = "Processing timeout after 30 seconds"
        /\ calls[i].attempt = 2
        /\ ~editorState.isProcessing

\* C4 (as stated): isProcessing is false immediately after any call reaches a
\* terminal outcome, a validation error included, in every interleaving.
C4_FalseAfterAnyOutcome ==
    [][\A i \in CallIds :
        (Returns(i) /\ calls'[i].outcome \in {"Succeeded", "Failed", "ValidationError"})
            => ~editorState'.isProcessing]_vars

\* C4 (amended): isProcessing is false immediately after an accepted call
\* reaches its terminal outcome (success or failure); a call that ends in a
\* validation error or as Busy leaves isProcessing as it found it, so the flag
\* stays true when an earlier accepted call is still in flight.
C4_FalseAfterAccepted ==
    [][\A i \in CallIds :
        Returns(i) =>
            IF calls'[i].outcome \in {"Succeeded", "Failed"}
            THEN ~editorState'.isProcessing
            ELSE editorState'.isProcessing = editorState.isProcessing]_vars

C4_InvalidWhileInFlight ==
    \E i, j \in CallIds :
        /\ InFlight(i)
        /\ calls[j].pc = "returned" /\ calls[j].outcome = "ValidationError"
        /\ editorState.isProcessing

\* C5: for every editor text that is empty or whitespace-only, processWithAI
\* returns at once as a validation error: no request is issued then or later,
\* isProcessing and the editor are left as they were, and no retry and no
\* local fallback runs.
C5_BlankRejected ==
    [][\A i \in CallIds :
        /\ (Called(i) /\ WhitespaceOnly(editor.value)) =>
              /\ calls'[i].pc = "returned"
              /\ calls'[i].outcome = "ValidationError"
              /\ requests' = requests
              /\ editorState'.isProcessing = editorState.isProcessing
              /\ editor' = editor
              /\ calls'[i].attempt = 0 /\ calls'[i].waits = <<>>
              /\ calls'[i].fallbackRuns = 0
        /\ (calls[i].pc # "idle" /\ WhitespaceOnly(calls[i].input)) => calls'[i] = calls[i]]_vars

C5_WhitespaceRejected ==
    \E i \in CallIds :
        /\ calls[i].pc = "returned" /\ calls[i].outcome = "ValidationError"
        /\ calls[i].input = " \n\t "
        /\ editor.value = " \n\t "
        /\ RequestsOf(i) = 0

\* C6: for every editor input longer than MAX_TEXT_LENGTH characters,
\* processWithAI ends in a validation error and issues no request (and takes
\* no lock, attempts no retry and no fallback).
C6_OverlongRejected ==
    \A i \in CallIds :
        Len(calls[i].input) > MAX_TEXT_LENGTH =>
            /\ RequestsOf(i) = 0
            /\ ~InFlight(i)
            /\ calls[i].pc = "returned" => calls[i].outcome = "ValidationError"
            /\ calls[i].fallbackRuns = 0

\* C7: when the first k-1 attempts of an accepted invocation fail retryably
\* and attempt k succeeds (1 <= k <= RETRY_ATTEMPTS), exactly k requests were
\* issued and the wait after failed attempt n was 2^n * 1000 ms.
C7_SucceedsAtK ==
    \A i \in CallIds :
        calls[i].outcome = "Succeeded" =>
            LET k == calls[i].attempt IN
            /\ k \in 1..RETRY_ATTEMPTS
            /\ RequestsOf(i) = k
            /\ Len(calls[i].failures) = k - 1
            /\ calls[i].waits = SubSeq(<<2000, 4000>>, 1, k - 1)
            /\ \A n \in 1..(k - 1) : calls[i].waits[n] = (2 ^ n) * 1000

C7_ThirdAttemptSucceeds ==
    \E i \in CallIds :
        /\ calls[i].outcome = "Succeeded" /\ calls[i].attempt = 3
        /\ calls[i].waits = <<2000, 4000>>
        /\ RequestsOf(i) = 3

\* the error a non-2xx response is turned into
NonOk(error) == error.message \in {"Test error", "HTTP 500: Internal Server Error"}

\* C8: no invocation issues more than RETRY_ATTEMPTS requests; when every
\* attempt fails with a non-2xx response exactly RETRY_ATTEMPTS requests are
\* issued, no backoff follows the last failed attempt, and the invocation
\* ends on the failure path with the local fallback run once.
C8_AtMostRetryAttempts ==
    \A i \in CallIds :
        /\ RequestsOf(i) <= RETRY_ATTEMPTS
        /\ calls[i].pc = "backoff" => calls[i].attempt < RETRY_ATTEMPTS
        /\ Len(calls[i].waits) <= RETRY_ATTEMPTS - 1
        /\ ( /\ calls[i].pc = "returned" /\ calls[i].outcome = "Failed"
             /\ \A n \in 1..Len(calls[i].failures) : NonOk(calls[i].failures[n]) ) =>
              /\ RequestsOf(i) = RETRY_ATTEMPTS
              /\ Len(calls[i].failures) = RETRY_ATTEMPTS
              /\ calls[i].waits = <<2000, 4000>>
              /\ NonOk(calls[i].error)
              /\ calls[i].fallbackRuns = 1

C8_ServerErrorEveryAttempt ==
    \E i \in CallIds :
        /\ calls[i].pc = "returned" /\ calls[i].outcome = "Failed"
        /\ Len(calls[i].failures) = 3
        /\ \A n \in 1..3 : calls[i].failures[n].message = "Test error"
        /\ RequestsOf(i) = 3
        /\ calls[i].fallbackRuns = 1

\* this step is the one in which the pending fetch of invocation i is aborted
\* by its timer
TimesOut(i) ==
    /\ calls[i].pc = "fetch"
    /\ Len(calls'[i].failures) = Len(calls[i].failures) + 1
    /\ calls'[i].failures[Len(calls'[i].failures)].name = "AbortError"

\* C9 (as stated): a timeout on attempt n < RETRY_ATTEMPTS is handled like any
\* other retryable failure: the invocation waits the backoff and goes on to
\* attempt n+1; only a timeout on the last attempt ends it.
C9_TimeoutRetried ==
    [][\A i \in CallIds :
        TimesOut(i) =>
            IF calls[i].attempt < RETRY_ATTEMPTS
            THEN calls'[i].pc = "backoff" /\ calls'[i].waitTime = (2 ^ calls[i].attempt) * 1000
            ELSE calls'[i].pc = "returned" /\ calls'[i].outcome = "Failed"]_vars

\* C9 (amended): a timeout on any attempt, the first included, ends the retry
\* loop at once: no backoff and no further request follow, and the invocation
\* returns on the failure path (local fallback run once) with the error
\* "Processing timeout after 30 seconds".
C9_TimeoutEndsInvocation ==
    [][\A i \in CallIds :
        /\ TimesOut(i) =>
              /\ calls'[i].pc = "returned" /\ calls'[i].outcome = "Failed"
              /\ calls'[i].error.message = "Processing timeout after 30 seconds"
              /\ calls'[i].waits = calls[i].waits
              /\ calls'[i].fallbackRuns = 1
              /\ requests' = requests
        /\ calls[i].pc = "returned" =>
              calls'[i].pc = "returned" /\ RequestsOf(i)' = RequestsOf(i)]_vars

C9_TimeoutOnFirstAttempt ==
    \E i \in CallIds :
        /\ calls[i].pc = "returned" /\ calls[i].outcome = "Failed"
        /\ Len(calls[i].failures) = 1 /\ calls[i].failures[1].name = "AbortError"
        /\ RequestsOf(i) = 1
        /\ calls[i].waits = <<>>

\* this step is the one in which invocation i reads a 2xx response whose JSON
\* has success false or no processedText
ReadsMalformed(i) ==
    /\ calls[i].pc = "json" /\ calls[i].response \in {NoText, Refused}
    /\ calls'[i].pc # "json"

\* C10 (as stated): a malformed success response on attempt n is not retried:
\* the invocation goes directly to the failure path and issues no further
\* attempt, even when n < RETRY_ATTEMPTS.
C10_MalformedNotRetried ==
    [][\A i \in CallIds :
        ReadsMalformed(i) => calls'[i].pc = "returned" /\ calls'[i].outcome = "Failed"]_vars

\* C10 (amended): a malformed success response on attempt n is retried like
\* any other failed attempt: when n < RETRY_ATTEMPTS the invocation waits
\* 2^n * 1000 ms and issues attempt n+1; only on the last attempt does it go
\* to the failure path.
C10_MalformedRetried ==
    [][\A i \in CallIds :
        /\ ReadsMalformed(i) =>
              IF calls[i].attempt < RETRY_ATTEMPTS
              THEN /\ calls'[i].pc = "backoff"
                   /\ calls'[i].waitTime = (2 ^ calls[i].attempt) * 1000
              ELSE calls'[i].pc = "returned" /\ calls'[i].outcome = "Failed"
        /\ calls[i].pc = "backoff" =>
              \/ calls'[i].pc = "backoff"
              \/ /\ calls'[i].pc = "fetch" /\ calls'[i].attempt = calls[i].attempt + 1
                 /\ RequestsOf(i)' = RequestsOf(i) + 1
                 /\ now' = now + calls[i].waitTime]_vars

C10_SecondAttemptAfterMalformed ==
    \E i \in CallIds :
        /\ calls[i].pc = "fetch" /\ calls[i].attempt = 2
        /\ calls[i].failures = <<[name |-> "Error",
                message |-> "Processing failed - no processed text returned"]>>
        /\ RequestsOf(i) = 2

\* the response is a success: 2xx, a JSON body, a true success flag and a
\* processedText that is not empty
WellFormed(r) ==
    r.ok /\ r.json /\ r.success /\ r.processedText \notin {JsString(""), JsNumber("0")}

\* this step reads the body of the response to invocation i's attempt
BodyRead(i) == calls[i].pc \in {"json", "errorJson"} /\ calls'[i].pc # calls[i].pc

\* C11: an attempt moves the invocation to Succeeded exactly when its response
\* has a 2xx status, a true success flag and a non-empty processedText; the
\* step that succeeds writes the enriched text, issues no request and runs no
\* local fallback, and nothing is issued afterwards; when the first response
\* to a tutorial invocation is processedText "# Step 1: Hello", exactly one
\* request was made and the editor receives exactly that text.
C11_SucceedsIffWellFormed ==
    [][\A i \in CallIds :
        /\ (Returns(i) /\ calls'[i].outcome = "Succeeded") =>
               /\ calls[i].pc = "json" /\ WellFormed(calls[i].response)
               /\ requests' = requests
               /\ calls'[i].fallbackRuns = 0
               /\ ~\E k \in 1..Len(calls'[i].notes) :
                      calls'[i].notes[k].message = "{} Trying local fallback formatting..."
        /\ (BodyRead(i) /\ WellFormed(calls[i].response)) =>
               calls'[i].pc = "returned" /\ calls'[i].outcome = "Succeeded"
        /\ calls[i].outcome = "Succeeded" =>
               /\ calls'[i].pc = "returned" /\ calls'[i].outcome = "Succeeded"
               /\ calls'[i].fallbackRuns = 0
               /\ \A k \in 1..Len(requests') : requests'[k].call = i => k <= Len(requests)
        /\ ( BodyRead(i) /\ calls[i].response = Formatted /\ calls[i].format = "tutorial"
             /\ calls[i].failures = <<>> ) =>
               /\ calls'[i].outcome = "Succeeded"
               /\ calls'[i].attempt = 1 /\ RequestsOf(i) = 1
               /\ editor'.value = "# Step 1: Hello"]_vars

C11_OneAttemptTutorial ==
    \E i \in CallIds :
        /\ calls[i].outcome = "Succeeded" /\ calls[i].format = "tutorial"
        /\ calls[i].attempt = 1 /\ RequestsOf(i) = 1
        /\ calls[i].fallbackRuns = 0
        /\ editor.value = "# Step 1: Hello"

\* every attempt of the invocation with locals c failed and was caught by the
\* retry loop
ExhaustedCall(c) ==
    /\ c.outcome = "Failed"
    /\ Len(c.failures) = RETRY_ATTEMPTS
    /\ \A k \in 1..RETRY_ATTEMPTS : c.failures[k].name # "AbortError"

Exhausted(i) == ExhaustedCall(calls[i])

\* C12: when all RETRY_ATTEMPTS attempts of an accepted invocation fail
\* retryably, the local formatter runs exactly once and its input is the text
\* the editor held when the invocation started, whatever the editor holds at
\* the time of exhaustion.
C12_FallbackOnOriginal ==
    \A i \in CallIds :
        Exhausted(i) =>
            /\ calls[i].fallbackRuns = 1
            /\ calls[i].fallbackInput = calls[i].input

\* the notification on the page once invocation i has returned: the one it
\* showed last
LastNote(c) == c.notes[Len(c.notes)]

\* C13: on exhaustion the local formatter's output is written to the editor
\* and announced as applied only if it differs from its input; when its
\* output equals its input the editor is left as it was and the notification
\* the user is left with is the one of the original error, not a fallback
\* message.
C13_NoOpKeepsError ==
    [][\A i \in CallIds :
        (Returns(i) /\ ExhaustedCall(calls'[i])) =>
            IF autoFormatLocalText(editor.value) # editor.value
            THEN /\ editor'.value = autoFormatLocalText(editor.value)
                 /\ LastNote(calls'[i]).type \in {"info", "success"}
            ELSE /\ editor'.value = editor.value
                 /\ LastNote(calls'[i]) = Note(userMessage(calls'[i].error), "error")]_vars

\* C14: enrichment never fails the operation: whatever processedText a
\* well-formed response carries, for every format and setting, the invocation
\* ends in success with the value enrichContent returned in the editor; when
\* a step of the enrichment throws (processedText is not a string) that value
\* is the text it was given, unenriched, and the error is only logged.
C14_EnrichmentNeverFails ==
    [][\A i \in CallIds :
        (BodyRead(i) /\ WellFormed(calls[i].response)) =>
            /\ calls'[i].pc = "returned" /\ calls'[i].outcome = "Succeeded"
            /\ ~editorState'.isProcessing
            /\ IF calls[i].response.processedText.type = "string"
               THEN editor'.value =
                        enrichContent(calls[i].response.processedText.text, calls[i].format,
                                      [enableIcons |-> enableIcons, enablePrefilled |-> TRUE])
               ELSE /\ editor'.value = calls[i].response.processedText.text
                    /\ \E k \in 1..Len(editorState'.errors) :
                          /\ editorState'.errors[k].message = "Content enrichment failed"
                          /\ editorState'.errors[k].timestamp = now]_vars

C14_NumberRendered ==
    \E i \in CallIds :
        /\ calls[i].outcome = "Succeeded"
        /\ editor.value = "42"
        /\ \E k \in 1..Len(editorState.errors) :
              editorState.errors[k].message = "Content enrichment failed"

\* enrichContent was called with an empty text or with a value that is not a
\* string
EmptyOrMalformed(content) == content = JsString("") \/ content.type # "string"

Shown(c, note) == \E k \in 1..Len(c.notes) : c.notes[k] = note

\* (a) the step writes the enriched text of the service to the editor
EnrichedWritten(i) ==
    /\ calls'[i].outcome = "Succeeded"
    /\ calls[i].pc = "json"
    /\ editor'.value = EnrichedText(calls[i].response.processedText, calls[i].format,
                                    [enableIcons |-> enableIcons, enablePrefilled |-> TRUE]).text
    /\ LastNote(calls'[i]).type = "success"

\* (b) the step writes the local formatter's text to the editor, in place of
\* a different text, and announces it
FallbackWritten(i) ==
    /\ calls'[i].outcome = "Failed"
    /\ editor'.value = autoFormatLocalText(editor.value)
    /\ editor'.value # editor.value
    /\ LastNote(calls'[i]) = Note("{} Local formatting applied", "info")

\* (c) the step reports the error and leaves the editor's text as it was
ErrorReported(i) ==
    /\ calls'[i].outcome = "Failed"
    /\ Shown(calls'[i], Note(userMessage(calls'[i].error), "error"))
    /\ editor'.value = editor.value

Severities == {"info", "success", "warning", "error"}

\* the notifications invocation i shows in this step
NotesShown(i) == SubSeq(calls'[i].notes, Len(calls[i].notes) + 1, Len(calls'[i].notes))

\* this step ends invocation i in a failure
Fails(i) == Returns(i) /\ calls'[i].outcome \in {"ValidationError", "Busy", "Failed"}

Issues(i) == \E k \in (Len(requests) + 1)..Len(requests') : requests'[k].call = i

\* C18: within one invocation the result (enriched text or fallback text) is
\* enriched and written to the editor only once the attempt loop is over: the
\* step that writes it is the one in which the invocation returns, it issues
\* no request and leaves none pending, no request of the invocation is
\* issued afterwards, and no earlier step of the invocation touches the
\* editor.
C18_RenderAfterLoop ==
    [][\A i \in CallIds :
        /\ (Returns(i) /\ calls'[i].outcome \in {"Succeeded", "Failed"}) =>
              /\ ~Issues(i)
              /\ calls[i].pc \in {"fetch", "json", "errorJson"}
              /\ calls'[i].pc \notin {"fetch", "json", "errorJson", "backoff"}
        /\ calls[i].pc = "returned" => ~Issues(i) /\ calls'[i].pc = "returned"
        /\ (calls'[i] # calls[i] /\ ~Returns(i)) =>
              /\ editor' = editor
              /\ editorState'.content = editorState.content]_vars

C18_RenderedAfterThreeRequests ==
    \E i \in CallIds :
        /\ calls[i].pc = "returned" /\ calls[i].outcome = "Failed"
        /\ RequestsOf(i) = RETRY_ATTEMPTS
        /\ calls[i].fallbackInput = "Hello step"
        /\ editor.value = autoFormatLocalText("Hello step")
        /\ editor.value # "Hello step"

C21_SamePayload ==
    \A k \in 1..Len(requests) :
        LET c == calls[requests[k].call]
        IN  /\ requests[k].body = c.payload
            /\ requests[k].body.text = c.content
            /\ requests[k].body.format = c.format
            /\ requests[k].body.sessionId = "session_1"
            /\ requests[k].body.timestamp = c.startTime
            /\ \A l \in 1..Len(requests) :
                  requests[l].call = requests[k].call => requests[l].body = requests[k].body

C21_EditedBetweenAttempts ==
    \E i \in CallIds :
        /\ calls[i].pc = "fetch" /\ calls[i].attempt = RETRY_ATTEMPTS
        /\ RequestsOf(i) = RETRY_ATTEMPTS
        /\ calls[i].content = "# Hi"
        /\ editor.value = ""
        /\ now > calls[i].startTime

\* the message derived from the HTTP status of response r
StatusMessage(r) ==
    "@ Processing failed: " \o
    ( IF r.status \in {401, 403} THEN "Authentication error. Please refresh the page."
      ELSE IF r.status = 429 THEN "Rate limit exceeded. Please wait a moment before trying again."
      ELSE IF r.status \in {500, 502, 503} THEN "Server error. Please try again later."
      ELSE "HTTP " \o NumToString(r.status) \o ": " \o r.statusText )

\* this step ends invocation i on its last attempt, the body of a non-2xx
\* response having been read
FinalNonOk(i) ==
    /\ Returns(i)
    /\ calls[i].pc = "errorJson"
    /\ calls[i].attempt = RETRY_ATTEMPTS

\* C22: when the final failing attempt is a non-2xx response
\* whose JSON body has an error field, the error notification shows that
\* field's text; when the body has no error field or is not JSON, the message
\* is derived from the HTTP status.
C22_ErrorFieldShown ==
    [][\A i \in CallIds :
        FinalNonOk(i) =>
            LET r == calls[i].response
                shown == NotesShown(i)[1]
            IN  /\ shown.type = "error"
                /\ shown.message = IF r.json /\ r.error # ""
                                   THEN "@ Processing failed: " \o r.error
                                   ELSE StatusMessage(r)]_vars

\* the requests of invocation i that are still pending: issued, and neither
\* failed nor answered with the result the invocation returned
Pending(i) ==
    RequestsOf(i) - Len(calls[i].failures)
                  - (IF calls[i].outcome = "Succeeded" THEN 1 ELSE 0)

\* C23: the retry loop is strictly sequential: an invocation never has more
\* than one request pending, its requests are attempts 1, 2, ... in order,
\* and attempt n+1 is issued only in the step that ends the backoff wait of
\* 2^n seconds, which began when attempt n had failed.
C23_Sequential ==
    [][\A i \in CallIds :
        /\ Pending(i) \in {0, 1}
        /\ Pending(i) = 1 <=> calls[i].pc \in {"fetch", "json", "errorJson"}
        /\ Issues(i) =>
              /\ RequestsOf(i) = calls'[i].attempt - 1
              /\ Len(requests') = Len(requests) + 1
              /\ requests'[Len(requests')].attempt = calls'[i].attempt
              /\ Pending(i) = 0
              /\ calls'[i].attempt > 1 =>
                    /\ calls[i].pc = "backoff"
                    /\ calls[i].attempt = calls'[i].attempt - 1
                    /\ Len(calls[i].failures) = calls[i].attempt
                    /\ now' - now = (2 ^ calls[i].attempt) * 1000
                    /\ Len(calls'[i].waits) = calls[i].attempt]_vars

C23_ThirdAfterTwoWaits ==
    \E i \in CallIds :
        /\ calls[i].pc = "fetch" /\ calls[i].attempt = 3
        /\ RequestsOf(i) = 3
        /\ Len(calls[i].failures) = 2
        /\ calls[i].waits = <<2000, 4000>>
        /\ now = calls[i].startTime + 6000

\* the separator enrichTwitterContent joins its chunks with
Separator == "\n\n---\n\n"

SeparatorAt(s, i) ==
    i + Len(Separator) - 1 <= Len(s) /\ SubSeq(s, i, i + Len(Separator) - 1) = Separator

\* where the separators of s begin
Separators(s) == {i \in 1..Len(s) : SeparatorAt(s, i)}

\* where the chunks of s begin: at its start and after each separator
ChunkStarts(s) == {1} \cup {i + Len(Separator) : i \in Separators(s)}

\* the last character of the chunk that begins at start: the one before the
\* next separator, or the last of s
ChunkEnd(s, start) ==
    IF \E i \in Separators(s) : i >= start
    THEN (CHOOSE i \in Separators(s) :
             i >= start /\ \A j \in Separators(s) : j >= start => i <= j) - 1
    ELSE Len(s)

\* the lengths of the chunks of s, the texts between its separators
ChunkLengths(s) == {ChunkEnd(s, start) - start + 1 : start \in ChunkStarts(s)}

\* C24: every chunk the twitter enrichment emits, the text between the '---'
\* separators with its 'i/n' header when there are several chunks, is at
\* most 280 characters long.
C24_ChunksWithinLimit ==
    (enrichCall.called /\ enrichCall.format = "twitter-post") =>
        \A n \in ChunkLengths(enrichCall.returned.text) : n <= 280

\* C25: insertFormat replaces the selection [start, end) with before, the
\* selected text (the placeholder when nothing is selected) and after, and
\* leaves the text before and after the selection as it was; when the
\* editor would then hold more than MAX_TEXT_LENGTH characters it leaves the
\* text and the selection as they were and shows one warning, so a call that
\* lengthens the text never takes it beyond MAX_TEXT_LENGTH.
C25_InsertWithinLimit ==
    insertCall.called =>
        LET old      == insertCall.value
            from     == insertCall.selectionStart
            to       == insertCall.selectionEnd
            selected == SubSeq(old, from + 1, to)
            inserted == insertCall.before
                        \o (IF to > from THEN selected ELSE insertCall.placeholder)
                        \o insertCall.after
            length   == from + Len(inserted) + (Len(old) - to)
        IN  IF length > 1000
            THEN /\ editor.value = old
                 /\ editorState.content = old
                 /\ insertCall.start = from /\ insertCall.end = to
                 /\ Len(insertCall.notes) = 1 /\ insertCall.notes[1].type = "warning"
            ELSE /\ Len(editor.value) = length
                 /\ SubSeq(editor.value, 1, from) = SubSeq(old, 1, from)
                 /\ SubSeq(editor.value, from + 1, from + Len(inserted)) = inserted
                 /\ SubSeq(editor.value, from + Len(inserted) + 1, length)
                        = SubSeq(old, to + 1, Len(old))
                 /\ editorState.content = editor.value
                 /\ insertCall.notes = <<>>

C25_RefusedAtLimit ==
    /\ insertCall.called
    /\ Len(insertCall.value) = 994
    /\ insertCall.selectionStart = 5 /\ insertCall.selectionEnd = 5
    /\ insertCall.placeholder = "bold"
    /\ editor.value = insertCall.value
    /\ insertCall.notes # <<>>

\* the button of invocation i shows the processing state
ShowsProcessing(b) ==
    b.innerHTML = "{} Processing..." /\ b.disabled /\ b.opacity = "0.6"

\* C26: while an accepted invocation is in progress its format button is
\* disabled and shows the processing label; the step in which it returns,
\* whatever its outcome, enables the button again and gives it back the
\* content it had; a call that is rejected as Busy or for its text changes
\* the label, the disabled flag and the opacity of no button.
C26_ButtonFollowsInvocation ==
    [][\A i \in CallIds :
        /\ (InFlight(i) /\ calls[i].button # "") =>
              ShowsProcessing(buttons[calls[i].button])
        /\ (Called(i) /\ calls'[i].pc # "returned" /\ calls'[i].button # "") =>
              /\ ~buttons[calls'[i].button].disabled
              /\ calls'[i].originalButtonContent = buttons[calls'[i].button].innerHTML
              /\ ShowsProcessing(buttons'[calls'[i].button])
        /\ (Returns(i) /\ InFlight(i) /\ calls[i].button # "") =>
              /\ calls'[i].outcome \in {"Succeeded", "Failed"}
              /\ ~buttons'[calls[i].button].disabled
              /\ buttons'[calls[i].button].innerHTML = calls[i].originalButtonContent
              /\ buttons'[calls[i].button].innerHTML = "{} " \o calls[i].button
        /\ (Called(i) /\ calls'[i].outcome \in {"Busy", "ValidationError"}) =>
              \A f \in ButtonFormats : ButtonLook(buttons'[f]) = ButtonLook(buttons[f])]_vars

C26_RestoredAfterTimeout ==
    \E i \in CallIds, j \in CallIds :
        /\ calls[i].outcome = "Failed" /\ calls[i].button = "tutorial"
        /\ calls[i].error.message = "Processing timeout after 30 seconds"
        /\ calls[j].outcome = "Busy"
        /\ buttons["tutorial"].innerHTML = "{} tutorial"
        /\ ~buttons["tutorial"].disabled
        /\ buttons["tutorial"].opacity = "1"

\* C27: after any calls of logError, editorState.errors holds at most 10
\* entries, they are the entries of the most recent calls in the order of the
\* calls, and editorState.lastError is the entry of the last call, the last
\* element of errors; a call appends its entry and drops the oldest one when
\* there are more than 10.
C27_LastTenInOrder ==
    [][ /\ Len(editorState.errors) <= 10
        /\ editorState' # editorState =>
              LET old == editorState.errors
                  new == editorState'.errors
              IN  /\ Len(new) = IF Len(old) < 10 THEN Len(old) + 1 ELSE 10
                  /\ Len(new) <= 10
                  /\ \A k \in 1..(Len(new) - 1) : new[k] = old[Len(old) - (Len(new) - 1) + k]
                  /\ editorState'.lastError = new[Len(new)]
                  /\ new[Len(new)].timestamp = now
                  /\ \A k \in 1..(Len(new) - 1) :
                        new[k].timestamp = new[k + 1].timestamp - 1 ]_vars

C27_OldestDropped ==
    /\ Len(editorState.errors) = 10
    /\ editorState.errors[1].timestamp = 2
    /\ editorState.errors[10].timestamp = 11
    /\ editorState.lastError = editorState.errors[10]
    /\ editorState.errors[1].message # editorState.errors[10].message

\* this step issues the request of autoFormat
AutoIssues == \E k \in (Len(requests) + 1)..Len(requests') : requests'[k].call = 0

\* this step is one of autoFormat that writes the editor
AutoWrites == autoCall' # autoCall /\ editor' # editor

\* C28: the isProcessing lock covers every path that posts to the /process
\* endpoint: autoFormat never issues its request while a processWithAI
\* invocation is in flight and never writes the editor while isProcessing is
\* true, and the editor is never written on behalf of a request issued while
\* another formatting request was pending.
C28_LockCoversAutoFormat ==
    [][ /\ AutoIssues => \A i \in CallIds : ~InFlight(i)
        /\ AutoWrites => ~editorState.isProcessing
        /\ \A i \in CallIds : Issues(i) => autoCall.pc \notin {"fetch", "json", "errorJson"} ]_vars

\* this step is the firing of the timer of attempt n of invocation i after
\* that attempt has ended
StaleTimerFires(i, n) ==
    /\ n \in calls[i].timers /\ n \notin calls'[i].timers
    /\ ~(calls[i].pc = "fetch" /\ calls[i].attempt = n)

\* C29: the timer armed for attempt n can only abort attempt n: when it
\* fires after attempt n has ended, during the backoff wait, during a later
\* attempt or after the invocation has returned, the step changes nothing
\* but the timer itself: no attempt fails, no request is issued, and the
\* outcome, the editor, the flag and the buttons stay as they are; and an
\* attempt fails as aborted only in a step in which its own timer fires.
C29_StaleTimerHarmless ==
    [][\A i \in CallIds :
        /\ \A n \in 1..RETRY_ATTEMPTS :
              StaleTimerFires(i, n) =>
                  /\ calls'[i] = [calls[i] EXCEPT !.timers = @ \ {n}]
                  /\ UNCHANGED <<editor, editorState, buttons, requests, now>>
        /\ ( /\ Len(calls'[i].failures) > Len(calls[i].failures)
             /\ calls'[i].failures[Len(calls'[i].failures)].name = "AbortError" ) =>
              /\ calls[i].pc = "fetch"
              /\ calls[i].attempt \in calls[i].timers
              /\ calls[i].attempt \notin calls'[i].timers
              /\ calls'[i].timers = calls[i].timers \ {calls[i].attempt}]_vars

C29_FirstTimerFiredDuringSecond ==
    \E i \in CallIds :
        /\ calls[i].pc = "fetch" /\ calls[i].attempt = 2
        /\ calls[i].failures[1].name = "TypeError"
        /\ calls[i].timers = {2}
        /\ RequestsOf(i) = 2

\* C30: LinkedIn enrichment is idempotent: enrichLinkedInContent applied to
\* a text it returned returns that text unchanged, so the engagement prompt
\* is appended at most once.
C30_LinkedInIdempotent ==
    [][ ( /\ enrichCall.called /\ enrichCall'.called
          /\ enrichCall'.format = "linkedin-post"
          /\ enrichCall'.content = enrichCall.returned ) =>
              enrichCall'.returned = enrichCall'.content ]_vars

====
